---- MODULE Spec2Model ----
\* A model of the jsweb micro framework: the Router (routing.py, with
\* JsWebApp.register_blueprint of app.py) and the Request body state machine
\* (request.py).  Strings are sequences of one-character strings; a route
\* pattern is a sequence of tokens, a literal character or a typed placeholder
\* <type:name>.
EXTENDS Integers, Sequences, FiniteSets, TLC

\* ------------------------------------------------------------------ bounds
MaxRoutes == 2
MaxSegLen == 1
MaxChunks == 2
MaxCookies == 2
MaxPathLen == 3
MaxSerials == 2

\* ---------------------------------------------------------------- helpers
EmptyMap == [x \in {} |-> x]

Range(s) == {s[i] : i \in DOMAIN s}

SetMax(S) == CHOOSE x \in S : \A y \in S : y <= x

SetMin(S) == CHOOSE x \in S : \A y \in S : x <= y

\* An optional argument: Python's None, or a value.
NoneArg(dflt) == [none |-> TRUE, v |-> dflt]

Some(v) == [none |-> FALSE, v |-> v]

\* ----------------------------------------------------------- route patterns
Lit(c) == [k |-> "lit", c |-> c, type |-> "", name |-> ""]

Ph(t, n) == [k |-> "ph", c |-> "", type |-> t, name |-> n]

\* "/a"
PatA == <<Lit("/"), Lit("a")>>

\* "/<int:id>"
PatInt == <<Lit("/"), Ph("int", "id")>>

\* "/<str:name>"
PatStr == <<Lit("/"), Ph("str", "name")>>

\* "/<int:id>/<int:id>": the group name id is defined twice, re.compile fails
PatDup == <<Lit("/"), Ph("int", "id"), Lit("/"), Ph("int", "id")>>

Patterns == {PatA, PatInt, PatStr, PatDup}

SegChars == {"a", "7"}

RECURSIVE SeqsUpTo(_, _)
SeqsUpTo(S, n) ==
    IF n = 0 THEN {<<>>}
    ELSE LET shorter == SeqsUpTo(S, n - 1)
         IN shorter \cup {Append(s, c) : s \in shorter, c \in S}

\* The request paths tried: "/" followed by one segment of letters and
\* digits, and "/7" followed by a newline (the path of a request for /7%0A).
Paths ==
    {<<"/">> \o seg : seg \in SeqsUpTo(SegChars, MaxSegLen)}
    \cup {<<"/", "7", "\n">>}

\* "/."
PatDot == <<Lit("/"), Lit(".")>>

\* "/a/"
PatASlash == <<Lit("/"), Lit("a"), Lit("/")>>

\* The patterns without placeholders tried.
LiteralPatterns == {PatA, PatDot, PatASlash}

\* The paths they are matched against: every text of up to MaxPathLen
\* characters of these.
MatchPaths == SeqsUpTo({"/", "a", ".", "\n"}, MaxPathLen)

Methods == {"GET", "POST"}

\* The view functions given to add_route: two functions of the same __name__;
\* the blueprints also register h3, whose __name__ differs.
Handlers == {"h1", "h2"}

HandlerName(h) == IF h = "h3" THEN "g" ELSE "f"

MethodArgs == {NoneArg(<<>>), Some(<<"POST">>)}

EndpointArgs == {NoneArg(""), Some("e")}

\* ------------------------------------------------------------------- state
VARIABLES
    routes,        \* Router.routes: the Route objects in registration order
    endpoints,     \* Router.endpoints: endpoint name -> Route
    reg,           \* outcome of the last registration call
    rcall,         \* the last resolve call and its outcome
    regcall,       \* the last registration call: which, its path, handler
                   \* and endpoint
    ucall,         \* the last url_for call and its outcome
    blueprints_with_static_files,  \* JsWebApp.blueprints_with_static_files (names)
    req_method,    \* Request.method
    content_type,  \* Request.headers["content-type"]
    _body,         \* Request._body: None, or the cached bytes
    _json,         \* Request._json
    _form,         \* Request._form
    _files,        \* Request._files
    _is_stream_consumed,   \* Request._is_stream_consumed
    receive,       \* the body chunks the transport has still to deliver
    task,          \* per task: where it is suspended, and its stream generator
    ret,           \* the last call that completed, and its outcome
    request_body,  \* history: the whole body the transport holds at the start
    readers,       \* history: the tasks receive() has delivered a message to
    body_returns,  \* history: how many body() calls returned (up to 2), and
                   \* the bytes the first of them returned
    calls,         \* history: the value the first completed json(), form() and
                   \* files() gave, the parsers that ran after one, the runs
                   \* of parse_form_data (up to 2), and whether two overlapped
    scope,         \* the ASGI scope of the request JsWebApp.__call__ is handling
    req,           \* what __call__ sets on the Request: csrf_token and
                   \* new_csrf_token_generated
    pc,            \* where the call chain of the request stands
    frames,        \* the stages of the chain entered and not yet left, outermost first
    response,      \* the Response object being sent, or none
    sent,          \* the events given to send, in order
    exc,           \* the exception travelling up the chain, "" for none
    session,       \* history: database sessions opened and released for the request
    log,           \* history: the stages entered for the request, in order
    returned,      \* history: the kind of value the route handler returned
    script_content, \* response._JSWEB_SCRIPT_CONTENT, "" when jsweb.js was not found
    ctor,          \* history: the arguments the Response object was constructed with
    cookies,       \* history: the set_cookie and delete_cookie calls made on the
                   \* Response object, in order
    result         \* history: the value the view function gave back

routerVars ==
    <<routes, endpoints, reg, rcall, regcall, ucall,
      blueprints_with_static_files>>

requestVars ==
    <<req_method, content_type, _body, _json, _form, _files,
      _is_stream_consumed, receive, task, ret, request_body, readers,
      body_returns, calls>>

appVars ==
    <<scope, req, pc, frames, response, sent, exc, session, log, returned,
      script_content, ctor, cookies, result>>

vars == <<routerVars, requestVars, appVars>>

\* ----------------------------------------------------- Route._compile_path
Digits == {"0", "1", "2", "3", "4", "5", "6", "7", "8", "9"}

DigitValue(c) ==
    CASE c = "0" -> 0 [] c = "1" -> 1 [] c = "2" -> 2 [] c = "3" -> 3
      [] c = "4" -> 4 [] c = "5" -> 5 [] c = "6" -> 6 [] c = "7" -> 7
      [] c = "8" -> 8 [] c = "9" -> 9

\* type_converters: the converter and the character class of the regex part;
\* an unknown type falls back to 'str'
type_converters(type_name) ==
    IF type_name \in {"str", "int", "path"} THEN type_name ELSE "str"

\* Does character c belong to the regex part of converter class cls?
\* str: [^/]+   int: \d+   path: .+? (the dot matches all but a newline)
InClass(cls, c) ==
    CASE cls = "int" -> c \in Digits
      [] cls = "path" -> c # "\n"
      [] OTHER -> c # "/"

\* re.findall(r"<(\w+):(\w+)>", path): the typed placeholders, in order
param_defs(path) == SelectSeq(path, LAMBDA t : t.k = "ph")

\* _compile_path with groups that may share a name
_compile_path_lenient(path) ==
    LET defs == param_defs(path)
        regex_path ==
            [i \in DOMAIN path |->
                IF path[i].k = "ph"
                THEN [k |-> "grp", c |-> "", name |-> path[i].name,
                      cls |-> type_converters(path[i].type)]
                ELSE [k |-> "lit", c |-> path[i].c, name |-> "", cls |-> ""]]
        names == [i \in DOMAIN defs |-> defs[i].name]
        last(n) == SetMax({i \in DOMAIN defs : defs[i].name = n})
    IN [ok |-> TRUE,
        regex |-> regex_path,
        param_names |-> names,
        converters |-> [n \in Range(names) |->
                           type_converters(defs[last(n)].type)]]

\* Every typed placeholder text is replaced by a named group; the rest of the
\* pattern stays as it is between ^ and $.  re.compile rejects a group name
\* that is defined twice.  converters keeps the last converter set for a name.
_compile_path(path) ==
    LET defs == param_defs(path)
        regex_path ==
            [i \in DOMAIN path |->
                IF path[i].k = "ph"
                THEN [k |-> "grp", c |-> "", name |-> path[i].name,
                      cls |-> type_converters(path[i].type)]
                ELSE [k |-> "lit", c |-> path[i].c, name |-> "", cls |-> ""]]
        names == [i \in DOMAIN defs |-> defs[i].name]
        last(n) == SetMax({i \in DOMAIN defs : defs[i].name = n})
    IN [ok |-> \A i, j \in DOMAIN defs : i # j => defs[i].name # defs[j].name,
        regex |-> regex_path,
        param_names |-> names,
        converters |-> [n \in Range(names) |->
                           type_converters(defs[last(n)].type)]]

\* Route.__init__
Route(path, handler, methods, endpoint) ==
    LET c == _compile_path(path)
    IN [path |-> path, handler |-> handler, methods |-> methods,
        endpoint |-> endpoint, converters |-> c.converters,
        regex |-> c.regex, param_names |-> c.param_names]

\* ------------------------------------------------------------ Route.match
NoMatch == [ok |-> FALSE, groups |-> EmptyMap]

\* The text of the pattern outside its placeholders is regex source as it
\* stands: a character matches itself, except the metacharacter '.', which
\* matches every character but a newline, and the metacharacter '$', which
\* takes no character and holds at the end of the string only (the two
\* metacharacters the patterns of the model hold).
LitMatches(c, x) == IF c = "." THEN x # "\n" ELSE x = c

\* The closing $ matches at the end of the string and before a newline that
\* ends the string.
AtEnd(s, j) == j = Len(s) + 1 \/ (j = Len(s) /\ s[j] = "\n")

\* self.regex.match(path) from element i of the regex and position j of the
\* string: a greedy group takes the longest run that lets the rest match, the
\* lazy path group the shortest.
RECURSIVE MatchFrom(_, _, _, _)
MatchFrom(regex, i, s, j) ==
    IF i > Len(regex) THEN [ok |-> AtEnd(s, j), groups |-> EmptyMap]
    ELSE LET e == regex[i]
         IN IF e.k = "lit" /\ e.c = "$"
            THEN IF AtEnd(s, j) THEN MatchFrom(regex, i + 1, s, j)
                 ELSE NoMatch
            ELSE IF e.k = "lit"
            THEN IF j <= Len(s) /\ LitMatches(e.c, s[j])
                 THEN MatchFrom(regex, i + 1, s, j + 1)
                 ELSE NoMatch
            ELSE LET lens == {n \in 1..(Len(s) - j + 1) :
                                /\ \A q \in j..(j + n - 1) : InClass(e.cls, s[q])
                                /\ MatchFrom(regex, i + 1, s, j + n).ok}
                 IN IF lens = {} THEN NoMatch
                    ELSE LET n == IF e.cls = "path" THEN SetMin(lens)
                                  ELSE SetMax(lens)
                             rest == MatchFrom(regex, i + 1, s, j + n)
                         IN [ok |-> TRUE,
                             groups |-> (e.name :> SubSeq(s, j, j + n - 1))
                                            @@ rest.groups]

IntVal(n) == [t |-> "int", n |-> n, s |-> <<>>]

StrVal(s) == [t |-> "str", n |-> 0, s |-> s]

\* int(value) of a digit string
RECURSIVE IntOf(_)
IntOf(s) ==
    IF s = <<>> THEN 0
    ELSE 10 * IntOf(SubSeq(s, 1, Len(s) - 1)) + DigitValue(s[Len(s)])

\* match leaving every captured text as it is
Convert_str(conv, value) == [ok |-> TRUE, val |-> StrVal(value)]

\* The converter of a parameter applied to the captured text; int raises
\* ValueError on a text that is no number.
Convert(conv, value) ==
    IF conv = "int"
    THEN IF value # <<>> /\ \A i \in DOMAIN value : value[i] \in Digits
         THEN [ok |-> TRUE, val |-> IntVal(IntOf(value))]
         ELSE [ok |-> FALSE, val |-> IntVal(0)]
    ELSE [ok |-> TRUE, val |-> StrVal(value)]

NoParams == [some |-> FALSE, params |-> EmptyMap]

\* Route.match: None, or the converted parameters
match(route, path) ==
    LET m == MatchFrom(route.regex, 1, path, 1)
    IN IF ~m.ok THEN NoParams
       ELSE LET conv == [n \in DOMAIN m.groups |->
                            Convert(route.converters[n], m.groups[n])]
            IN IF \A n \in DOMAIN conv : conv[n].ok
               THEN [some |-> TRUE,
                     params |-> [n \in DOMAIN conv |-> conv[n].val]]
               ELSE NoParams

\* ------------------------------------------------------- Router.add_route
\* The router after the call and the exception the call raised ("" for none).
add_route_nodupcheck(router, path, handler, methods, endpoint) ==
    LET ms == IF methods.none THEN <<"GET">> ELSE methods.v
        ep == IF endpoint.none THEN HandlerName(handler) ELSE endpoint.v
        route == Route(path, handler, ms, ep)
    IN IF ~_compile_path(path).ok
       THEN [routes |-> router.routes, endpoints |-> router.endpoints,
             exc |-> "re.error"]
       ELSE [routes |-> Append(router.routes, route),
             endpoints |-> (ep :> route) @@ router.endpoints,
             exc |-> ""]

\* add_route testing the endpoint argument before it takes the name of the
\* handler for an omitted one
add_route_explicit_dupcheck(router, path, handler, methods, endpoint) ==
    LET ms == IF methods.none THEN <<"GET">> ELSE methods.v
        ep == IF endpoint.none THEN HandlerName(handler) ELSE endpoint.v
        route == Route(path, handler, ms, ep)
    IN IF ~endpoint.none /\ endpoint.v \in DOMAIN router.endpoints
       THEN [routes |-> router.routes, endpoints |-> router.endpoints,
             exc |-> "ValueError"]
       ELSE IF ~_compile_path(path).ok
       THEN [routes |-> router.routes, endpoints |-> router.endpoints,
             exc |-> "re.error"]
       ELSE [routes |-> Append(router.routes, route),
             endpoints |-> (ep :> route) @@ router.endpoints,
             exc |-> ""]

\* add_route entering the endpoint name before the Route is built
add_route_entering_first(router, path, handler, methods, endpoint) ==
    LET ms == IF methods.none THEN <<"GET">> ELSE methods.v
        ep == IF endpoint.none THEN HandlerName(handler) ELSE endpoint.v
        route == Route(path, handler, ms, ep)
    IN IF ep \in DOMAIN router.endpoints
       THEN [routes |-> router.routes, endpoints |-> router.endpoints,
             exc |-> "ValueError"]
       ELSE IF ~_compile_path(path).ok
       THEN [routes |-> router.routes,
             endpoints |-> (ep :> ep) @@ router.endpoints,
             exc |-> "re.error"]
       ELSE [routes |-> Append(router.routes, route),
             endpoints |-> (ep :> route) @@ router.endpoints,
             exc |-> ""]

add_route(router, path, handler, methods, endpoint) ==
    LET ms == IF methods.none THEN <<"GET">> ELSE methods.v
        ep == IF endpoint.none THEN HandlerName(handler) ELSE endpoint.v
        route == Route(path, handler, ms, ep)
    IN IF ep \in DOMAIN router.endpoints
       THEN [routes |-> router.routes, endpoints |-> router.endpoints,
             exc |-> "ValueError"]
       ELSE IF ~_compile_path(path).ok
       THEN [routes |-> router.routes, endpoints |-> router.endpoints,
             exc |-> "re.error"]
       ELSE [routes |-> Append(router.routes, route),
             endpoints |-> (ep :> route) @@ router.endpoints,
             exc |-> ""]

Router == [routes |-> routes, endpoints |-> endpoints]

\* ------------------------------------------- JsWebApp.register_blueprint
\* str.rstrip('/') and str.lstrip('/') on a pattern
RECURSIVE rstrip_slash(_)
rstrip_slash(s) ==
    IF s # <<>> /\ s[Len(s)] = Lit("/")
    THEN rstrip_slash(SubSeq(s, 1, Len(s) - 1))
    ELSE s

RECURSIVE lstrip_slash(_)
lstrip_slash(s) ==
    IF s # <<>> /\ s[1] = Lit("/") THEN lstrip_slash(Tail(s)) ELSE s

\* A blueprint whose second route repeats the endpoint of its first.
BpB ==
    [name |-> "b", url_prefix |-> <<>>, static_folder |-> FALSE,
     routes |-> << [path |-> PatA, handler |-> "h1",
                    methods |-> NoneArg(<<>>), endpoint |-> "f"],
                   [path |-> PatInt, handler |-> "h3",
                    methods |-> Some(<<"POST">>), endpoint |-> "f"] >>]

\* A blueprint under the prefix "/" with a static folder.
BpC ==
    [name |-> "c", url_prefix |-> <<Lit("/")>>, static_folder |-> TRUE,
     routes |-> << [path |-> PatStr, handler |-> "h2",
                    methods |-> NoneArg(<<>>), endpoint |-> "g"] >>]

Blueprints == {BpB, BpC}

\* A blueprint under the prefix "/p/".
BpP ==
    [name |-> "p", url_prefix |-> <<Lit("/"), Lit("p"), Lit("/")>>,
     static_folder |-> FALSE,
     routes |-> << [path |-> PatA, handler |-> "h1",
                    methods |-> NoneArg(<<>>), endpoint |-> "f"] >>]

\* A blueprint under the prefix "/p" whose route path "a" has no slash: its
\* full path is the one of BpP.
BpQ ==
    [name |-> "q", url_prefix |-> <<Lit("/"), Lit("p")>>,
     static_folder |-> FALSE,
     routes |-> << [path |-> <<Lit("a")>>, handler |-> "h2",
                    methods |-> Some(<<"POST">>), endpoint |-> "f"] >>]

\* A blueprint under the prefix "/p" with a placeholder in its route.
BpR ==
    [name |-> "r", url_prefix |-> <<Lit("/"), Lit("p")>>,
     static_folder |-> FALSE,
     routes |-> << [path |-> PatInt, handler |-> "h3",
                    methods |-> NoneArg(<<>>), endpoint |-> "g"] >>]

\* A blueprint under the prefix "/p" whose route "/$" holds a dollar sign, as
\* in "/$metadata".
BpS ==
    [name |-> "s", url_prefix |-> <<Lit("/"), Lit("p")>>,
     static_folder |-> FALSE,
     routes |-> << [path |-> <<Lit("/"), Lit("$")>>, handler |-> "h1",
                    methods |-> NoneArg(<<>>), endpoint |-> "f"] >>]

PrefixedBlueprints == {BpP, BpQ, BpR, BpS} \cup Blueprints

\* full_path of register_blueprint
full_path(blueprint, path) ==
    IF blueprint.url_prefix # <<>>
    THEN rstrip_slash(blueprint.url_prefix) \o <<Lit("/")>>
             \o lstrip_slash(path)
    ELSE path

\* full_endpoint of register_blueprint
full_endpoint(blueprint, endpoint) == blueprint.name \o "." \o endpoint

\* The loop of register_blueprint from route i on: it stops at the first
\* add_route that raises and keeps what the earlier iterations registered.
RECURSIVE register_from(_, _, _)
register_from(router, blueprint, i) ==
    IF i > Len(blueprint.routes)
    THEN [routes |-> router.routes, endpoints |-> router.endpoints, exc |-> ""]
    ELSE LET r == blueprint.routes[i]
             added == add_route(router, full_path(blueprint, r.path),
                                r.handler, r.methods,
                                Some(full_endpoint(blueprint, r.endpoint)))
         IN IF added.exc # "" THEN added
            ELSE register_from([routes |-> added.routes,
                                endpoints |-> added.endpoints],
                               blueprint, i + 1)

register_blueprint(router, blueprint) == register_from(router, blueprint, 1)

\* --------------------------------------------------------- Router.resolve
NotFound == [kind |-> "NotFound", handler |-> "", params |-> EmptyMap]

MethodNotAllowed ==
    [kind |-> "MethodNotAllowed", handler |-> "", params |-> EmptyMap]

RECURSIVE resolve_from(_, _, _, _)
resolve_from(rs, i, path, method) ==
    IF i > Len(rs) THEN NotFound
    ELSE LET params == match(rs[i], path)
         IN IF params.some
            THEN IF method \in Range(rs[i].methods)
                 THEN [kind |-> "ok", handler |-> rs[i].handler,
                       params |-> params.params]
                 ELSE MethodNotAllowed
            ELSE resolve_from(rs, i + 1, path, method)

\* resolve scanning the routes last-registered first
RECURSIVE resolve_from_last(_, _, _, _)
resolve_from_last(rs, i, path, method) ==
    IF i < 1 THEN NotFound
    ELSE LET params == match(rs[i], path)
         IN IF params.some
            THEN IF method \in Range(rs[i].methods)
                 THEN [kind |-> "ok", handler |-> rs[i].handler,
                       params |-> params.params]
                 ELSE MethodNotAllowed
            ELSE resolve_from_last(rs, i - 1, path, method)

resolve_reversed(path, method) == resolve_from_last(routes, Len(routes), path, method)

\* resolve going on to the later routes when the method is not allowed
RECURSIVE resolve_from_skipping(_, _, _, _, _)
resolve_from_skipping(rs, i, path, method, seen) ==
    IF i > Len(rs) THEN IF seen THEN MethodNotAllowed ELSE NotFound
    ELSE LET params == match(rs[i], path)
         IN IF params.some
            THEN IF method \in Range(rs[i].methods)
                 THEN [kind |-> "ok", handler |-> rs[i].handler,
                       params |-> params.params]
                 ELSE resolve_from_skipping(rs, i + 1, path, method, TRUE)
            ELSE resolve_from_skipping(rs, i + 1, path, method, seen)

resolve_skipping(path, method) == resolve_from_skipping(routes, 1, path, method, FALSE)

\* resolve reporting a method mismatch as NotFound
RECURSIVE resolve_from_notfound(_, _, _, _)
resolve_from_notfound(rs, i, path, method) ==
    IF i > Len(rs) THEN NotFound
    ELSE LET params == match(rs[i], path)
         IN IF params.some
            THEN IF method \in Range(rs[i].methods)
                 THEN [kind |-> "ok", handler |-> rs[i].handler,
                       params |-> params.params]
                 ELSE NotFound
            ELSE resolve_from_notfound(rs, i + 1, path, method)

resolve_mismatch_notfound(path, method) == resolve_from_notfound(routes, 1, path, method)

resolve(path, method) == resolve_from(routes, 1, path, method)

\* ---------------------------------------------------------- Router.url_for
\* The text of a pattern: a placeholder token <type:name> stands for the
\* characters of its source text.  No value or literal of the model holds a
\* ':', so every text "<type:name>" inside a path is a placeholder token.
TypeChars(t) ==
    CASE t = "int" -> <<"i", "n", "t">>
      [] t = "str" -> <<"s", "t", "r">>
      [] OTHER -> <<"p", "a", "t", "h">>

NameChars(n) ==
    CASE n = "id" -> <<"i", "d">>
      [] OTHER -> <<"n", "a", "m", "e">>

Lits(cs) == [i \in DOMAIN cs |-> Lit(cs[i])]

RECURSIVE ToText(_)
ToText(tokens) ==
    IF tokens = <<>> THEN <<>>
    ELSE LET t == Head(tokens)
         IN (IF t.k = "lit" THEN <<t.c>>
             ELSE <<"<">> \o TypeChars(t.type) \o <<":">> \o NameChars(t.name)
                      \o <<">">>)
            \o ToText(Tail(tokens))

DigitChar(d) ==
    CASE d = 0 -> "0" [] d = 1 -> "1" [] d = 2 -> "2" [] d = 3 -> "3"
      [] d = 4 -> "4" [] d = 5 -> "5" [] d = 6 -> "6" [] d = 7 -> "7"
      [] d = 8 -> "8" [] d = 9 -> "9"

RECURSIVE NatToStr(_)
NatToStr(n) ==
    IF n < 10 THEN <<DigitChar(n)>>
    ELSE Append(NatToStr(n \div 10), DigitChar(n % 10))

\* str(value) of a keyword argument of url_for
str(v) ==
    IF v.t = "int"
    THEN IF v.n < 0 THEN <<"-">> \o NatToStr(0 - v.n) ELSE NatToStr(v.n)
    ELSE v.s

AsciiLetters ==
    {"a", "b", "c", "d", "e", "f", "g", "h", "i", "j", "k", "l", "m", "n",
     "o", "p", "q", "r", "s", "t", "u", "v", "w", "x", "y", "z",
     "A", "B", "C", "D", "E", "F", "G", "H", "I", "J", "K", "L", "M", "N",
     "O", "P", "Q", "R", "S", "T", "U", "V", "W", "X", "Y", "Z"}

OctDigits == {"0", "1", "2", "3", "4", "5", "6", "7"}

\* The character an escape of a replacement template stands for (a control
\* character, or the one of an octal code), named by the escape.
Ctl(x) == "^" \o x

BadTemplate == [ok |-> FALSE, out |-> <<>>]

\* re.sub(pattern, repl, path) takes repl for a replacement template: the
\* text that replaces one match, whole being the matched text and group1 the
\* text of the only group of the pattern (the type of the placeholder).
\* \\ is a backslash, \g<n> and \n are group n, \0.. and \ddd are octal
\* codes, \a \b \f \n \r \t \v are control characters, a backslash before
\* another letter or at the end is an error (re.error), as is a group that
\* the pattern does not have.
RECURSIVE expand_template(_, _, _)
expand_template(tpl, whole, group1) ==
    IF tpl = <<>> THEN [ok |-> TRUE, out |-> <<>>]
    ELSE IF Head(tpl) # "\\"
    THEN LET rest == expand_template(Tail(tpl), whole, group1)
         IN [ok |-> rest.ok, out |-> <<Lit(Head(tpl))>> \o rest.out]
    ELSE IF Len(tpl) = 1 THEN BadTemplate
    ELSE LET c == tpl[2]
             from(k) == expand_template(SubSeq(tpl, k, Len(tpl)), whole, group1)
             then(out, k) ==
                 [ok |-> from(k).ok, out |-> out \o from(k).out]
             isdigit(k) == k <= Len(tpl) /\ tpl[k] \in Digits
             isoct(k) == k <= Len(tpl) /\ tpl[k] \in OctDigits
         IN CASE c = "g" ->
                    LET closes == {k \in 4..Len(tpl) : tpl[k] = ">"}
                    IN IF Len(tpl) < 3 \/ tpl[3] # "<" \/ closes = {}
                       THEN BadTemplate
                       ELSE LET k == SetMin(closes)
                                name == SubSeq(tpl, 4, k - 1)
                            IN IF name = <<>>
                                  \/ \E i \in DOMAIN name : name[i] \notin Digits
                                  \/ IntOf(name) > 1
                               THEN BadTemplate
                               ELSE then(IF IntOf(name) = 0 THEN whole
                                         ELSE group1, k + 1)
              [] c = "0" ->
                    IF isoct(3) /\ isoct(4)
                    THEN then(<<Lit(Ctl(c \o tpl[3] \o tpl[4]))>>, 5)
                    ELSE IF isoct(3)
                    THEN then(<<Lit(Ctl(c \o tpl[3]))>>, 4)
                    ELSE then(<<Lit(Ctl(c))>>, 3)
              [] c \in Digits \ {"0"} ->
                    IF isdigit(3)
                    THEN IF c \in OctDigits /\ tpl[3] \in OctDigits /\ isoct(4)
                         THEN IF c \in {"4", "5", "6", "7"} THEN BadTemplate
                              ELSE then(<<Lit(Ctl(c \o tpl[3] \o tpl[4]))>>, 5)
                         ELSE BadTemplate
                    ELSE IF c = "1" THEN then(group1, 3)
                    ELSE BadTemplate
              [] c \in {"a", "b", "f", "n", "r", "t", "v"} ->
                    then(<<Lit(Ctl(c))>>, 3)
              [] c \in AsciiLetters -> BadTemplate
              [] c = "\\" -> then(<<Lit("\\")>>, 3)
              [] OTHER -> then(<<Lit("\\"), Lit(c)>>, 3)

\* re.sub(r"<(\w+):" + param_name + ">", repl, path): every placeholder of
\* that name, whatever its type, is replaced by the expanded template.
RECURSIVE re_sub(_, _, _)
re_sub(param_name, repl, path) ==
    IF ~expand_template(repl, <<>>, <<>>).ok THEN [ok |-> FALSE, path |-> path]
    ELSE IF path = <<>> THEN [ok |-> TRUE, path |-> <<>>]
    ELSE LET t == Head(path)
             rest == re_sub(param_name, repl, Tail(path))
         IN [ok |-> TRUE,
             path |-> (IF t.k = "ph" /\ t.name = param_name
                       THEN expand_template(repl, <<t>>,
                                            Lits(TypeChars(t.type))).out
                       ELSE <<t>>) \o rest.path]

\* s.replace(old, new): the occurrences of old from the left, not overlapping
RECURSIVE str_replace(_, _, _)
str_replace(s, old, new) ==
    IF Len(s) < Len(old) THEN s
    ELSE IF SubSeq(s, 1, Len(old)) = old
    THEN new \o str_replace(SubSeq(s, Len(old) + 1, Len(s)), old, new)
    ELSE <<Head(s)>> \o str_replace(Tail(s), old, new)

\* One keyword argument of url_for, and the arguments by name
KV(key, val) == [key |-> key, val |-> val]

Keys(params) == {params[i].key : i \in DOMAIN params}

Value(params, key) ==
    params[CHOOSE i \in DOMAIN params : params[i].key = key].val

UrlOut(kind, path) == [kind |-> kind, path |-> path]

\* The first loop of url_for, from parameter name i on
RECURSIVE url_for_typed(_, _, _, _)
url_for_typed(path, param_names, i, params) ==
    IF i > Len(param_names) THEN UrlOut("ok", path)
    ELSE IF param_names[i] \notin Keys(params) THEN UrlOut("ValueError", <<>>)
    ELSE LET r == re_sub(param_names[i], str(Value(params, param_names[i])),
                         path)
         IN IF ~r.ok THEN UrlOut("re.error", <<>>)
            ELSE url_for_typed(r.path, param_names, i + 1, params)

\* The second loop of url_for, from keyword argument i on: the bare <key>
RECURSIVE url_for_bare(_, _, _)
url_for_bare(path, params, i) ==
    IF i > Len(params) THEN path
    ELSE url_for_bare(
             str_replace(path,
                         <<Lit("<")>> \o Lits(NameChars(params[i].key))
                             \o <<Lit(">")>>,
                         Lits(str(params[i].val))),
             params, i + 1)

\* Router.url_for(endpoint, **params): the path as text, or the exception
url_for(router, endpoint, params) ==
    IF endpoint \notin DOMAIN router.endpoints THEN UrlOut("ValueError", <<>>)
    ELSE LET route == router.endpoints[endpoint]
             typed == url_for_typed(route.path, route.param_names, 1, params)
         IN IF typed.kind # "ok" THEN typed
            ELSE UrlOut("ok", ToText(url_for_bare(typed.path, params, 1)))

\* url_for keeping the path it built in the route
url_for_effect_storing(router, endpoint, params) ==
    IF endpoint \notin DOMAIN router.endpoints THEN router
    ELSE LET route == router.endpoints[endpoint]
             typed == url_for_typed(route.path, route.param_names, 1, params)
             stored ==
                 [route EXCEPT !.path = url_for_bare(typed.path, params, 1)]
         IN IF typed.kind # "ok" THEN router
            ELSE [routes |-> [i \in DOMAIN router.routes |->
                                 IF router.routes[i] = route THEN stored
                                 ELSE router.routes[i]],
                  endpoints |-> [e \in DOMAIN router.endpoints |->
                                    IF e = endpoint THEN stored
                                    ELSE router.endpoints[e]]]

\* The router after url_for(endpoint, **params), returned or raised: the
\* method assigns to its local path only.
url_for_effect(router, endpoint, params) == router

\* The router after resolve(path, method), returned or raised: resolve and
\* Route.match assign to their locals, and to the dict groupdict() made for
\* the call.
resolve_effect(router, path, method) == router

\* The endpoint names url_for is called with: the __name__ of the view
\* functions, and "x", which is never registered.
UrlEndpoints == {"f", "x"}

\* The keyword arguments url_for is called with.
UrlParams ==
    { <<>>,
      <<KV("id", IntVal(7))>>,
      <<KV("id", IntVal(0 - 7))>>,
      <<KV("name", StrVal(<<"a">>))>>,
      <<KV("name", StrVal(<<"\\", "1">>))>>,
      <<KV("name", StrVal(<<"\\", "7">>))>>,
      <<KV("name", StrVal(<<"\\", "g", "<", "0", ">">>))>>,
      <<KV("name", StrVal(<<"<", "i", "d", ">">>)), KV("id", IntVal(7))>>,
      <<KV("id", IntVal(7)), KV("name", StrVal(<<"a">>))>> }


\* ================================================================ Request
\* The tasks that use one Request; each calls stream() at most once, so a
\* task's generator state tells whether it ever called and iterated it.
Tasks == {"t1", "t2"}

\* The requests tried, as method and Content-Type: a POST of each body kind,
\* and a GET with and without a JSON body.
RequestKinds ==
    {<<"POST", "application/json">>,
     <<"POST", "application/x-www-form-urlencoded">>,
     <<"POST", "multipart/form-data">>,
     <<"POST", "text/plain">>,
     <<"GET", "application/json">>,
     <<"GET", "text/plain">>}

\* One message of the transport: chunk.get("body", b""), chunk.get("more_body", False)
Chunk(b, more) == [body |-> b, more_body |-> more]

\* The body bytes one message carries: none, a digit, or an opening brace.
ChunkBodies == {<<>>, <<"1">>, <<"{">>}

\* The JSON text null, written as one element.
NullBody == <<"null">>

\* A run of opening brackets longer than the recursion limit of the
\* interpreter, written as one element.
DeepBody == <<"[...">>

\* The message sequences of a request body: every message but the last has
\* more_body set.  The deeply nested body comes in one message.
ChunkLists ==
    {cs \in SeqsUpTo({Chunk(b, m) : b \in ChunkBodies, m \in BOOLEAN}, MaxChunks) :
        /\ Len(cs) >= 1
        /\ \A i \in DOMAIN cs : cs[i].more_body = (i < Len(cs))}
    \cup {<<Chunk(DeepBody, FALSE)>>, <<Chunk(NullBody, FALSE)>>}

\* What receive() returns once the body is exhausted: http.disconnect, a
\* message without body and more_body
Disconnect == Chunk(<<>>, FALSE)

\* Values of json(), form() and files(): a mapping (here always the empty
\* one) or a number.
EmptyDict == [t |-> "dict", n |-> 0]

Number(n) == [t |-> "int", n |-> n]

\* Python's None as a value
NoneVal == [t |-> "None", n |-> 0]

\* json.loads(body_bytes): a run of digits is a number, null is None;
\* anything else our bodies can hold (an unclosed brace) raises
\* json.JSONDecodeError
json_loads(body_bytes) ==
    IF body_bytes = NullBody THEN [ok |-> TRUE, val |-> NoneVal]
    ELSE IF body_bytes # <<>> /\ \A i \in DOMAIN body_bytes : body_bytes[i] \in Digits
    THEN [ok |-> TRUE, val |-> Number(IntOf(body_bytes))]
    ELSE [ok |-> FALSE, val |-> EmptyDict]

\* The exception json.loads(body_bytes) raises, "" for none: the scanner
\* recurses once per nesting level and fails with RecursionError on a body
\* nested deeper than the recursion limit.
json_loads_exc(body_bytes) ==
    IF body_bytes = DeepBody THEN "RecursionError"
    ELSE IF json_loads(body_bytes).ok THEN ""
    ELSE "JSONDecodeError"

\* The try block of json() once body() returned: the value stored in _json,
\* or the exception the except clause (JSONDecodeError, ValueError) does not
\* catch.
json_try(body_bytes) ==
    IF body_bytes = <<>> THEN [exc |-> "", val |-> EmptyDict]
    ELSE LET e == json_loads_exc(body_bytes)
         IN IF e = "" THEN [exc |-> "", val |-> json_loads(body_bytes).val]
            ELSE IF e \in {"JSONDecodeError", "ValueError"}
            THEN [exc |-> "", val |-> EmptyDict]
            ELSE [exc |-> e, val |-> EmptyDict]

\* parse_qs(body_bytes.decode()): a body without "=" holds no field
parse_qs(body_bytes) == EmptyDict

\* A task: pc is "idle", "recv" (inside body(), awaiting receive()),
\* "gen_recv" (inside its generator, awaiting receive()) or "mp_exec"
\* (inside _parse_multipart, awaiting the executor); op is the public method
\* it is inside; gen the state of its generator object: "none", "created"
\* (not yet iterated), "more" / "last" (suspended at the yield, after a chunk
\* with / without more_body), "done", "failed"; chunks is body()'s list.
IdleTask == [pc |-> "idle", op |-> "", gen |-> "none", chunks |-> <<>>]

NoRet == [task |-> "", op |-> "", kind |-> "none", bytes |-> <<>>, val |-> EmptyDict]

Ret(t, op, kind, bytes, val) ==
    [task |-> t, op |-> op, kind |-> kind, bytes |-> bytes, val |-> val]

\* The sequence of chunks joined: b"".join(chunks)
RECURSIVE join(_)
join(cs) == IF cs = <<>> THEN <<>> ELSE Head(cs) \o join(Tail(cs))

NoCalls == [first |-> <<>>, again |-> {}, mp |-> 0, overlap |-> FALSE]

\* The history once method op returned val
Returned(c, op, val) ==
    IF op \in DOMAIN c.first THEN c
    ELSE [c EXCEPT !.first = (op :> val) @@ c.first]

\* The history once a parser ran for a method of ops
Parsed(c, parser, ops) ==
    IF DOMAIN c.first \cap ops # {} THEN [c EXCEPT !.again = @ \cup {parser}]
    ELSE c

\* self._json = value: a value of None leaves the memo as it was made
stored(val) == IF val = NoneVal THEN NoneArg(EmptyDict) ELSE Some(val)

\* Request.__init__
RequestInit(m, ct, cs) ==
    /\ req_method = m
    /\ content_type = ct
    /\ _body = NoneArg(<<>>)
    /\ _json = NoneArg(EmptyDict)
    /\ _form = NoneArg(EmptyDict)
    /\ _files = NoneArg(EmptyDict)
    /\ _is_stream_consumed = FALSE
    /\ receive = cs
    /\ task = [t \in Tasks |-> IdleTask]
    /\ ret = NoRet
    /\ request_body = join([i \in DOMAIN cs |-> cs[i].body])
    /\ readers = {}
    /\ body_returns = [n |-> 0, first |-> <<>>]
    /\ calls = NoCalls

\* The entry of the generator body of stream(), run by its first iteration:
\* the usage check, then the flag.
\* stream() that forgets to set the flag
stream_entry_noflag(consumed) ==
    IF consumed THEN [exc |-> "RuntimeError", consumed |-> consumed]
    ELSE [exc |-> "", consumed |-> consumed]

\* stream() without the usage check
stream_entry_nocheck(consumed) == [exc |-> "", consumed |-> TRUE]

stream_entry(consumed) ==
    IF consumed THEN [exc |-> "RuntimeError", consumed |-> consumed]
    ELSE [exc |-> "", consumed |-> TRUE]

\* body() testing `if not self._body`
body_is_none_falsy(b) == b.none \/ b.v = <<>>

\* `if self._body is None` of body()

body_is_none(b) == b.none

\* The start of body(): "cached" (return self._body), "RuntimeError" (the
\* stream was consumed) or "read" (iterate self.stream()).
body_entry(b, consumed) ==
    IF ~body_is_none(b) THEN "cached"
    ELSE IF consumed THEN "RuntimeError"
    ELSE "read"

\* json() reading the body of every request but a JSON one
NeedsBody_inverted(op) ==
    CASE op = "body" -> TRUE
      [] op = "json" -> _json.none /\ content_type # "application/json"
      [] op = "form" ->
            /\ _form.none
            /\ req_method \in {"POST", "PUT", "PATCH"}
            /\ content_type \in {"application/x-www-form-urlencoded",
                                "multipart/form-data"}
      [] op = "files" ->
            /\ _files.none
            /\ req_method \in {"POST", "PUT", "PATCH"}
            /\ content_type = "multipart/form-data"

\* Does the public method op call body() on this request (its memo being unset)?
NeedsBody(op) ==
    CASE op = "body" -> TRUE
      [] op = "json" -> _json.none /\ content_type = "application/json"
      [] op = "form" ->
            /\ _form.none
            /\ req_method \in {"POST", "PUT", "PATCH"}
            /\ content_type \in {"application/x-www-form-urlencoded",
                                "multipart/form-data"}
      [] op = "files" ->
            /\ _files.none
            /\ req_method \in {"POST", "PUT", "PATCH"}
            /\ content_type = "multipart/form-data"

\* The rest of method op of task t once its body() call returned body_bytes.
AfterBody(t, op, body_bytes) ==
    CASE op = "body" ->
            /\ ret' = Ret(t, op, "return", body_bytes, EmptyDict)
            /\ task' = [task EXCEPT ![t].pc = "idle", ![t].op = "", ![t].chunks = <<>>]
            /\ body_returns' =
                  IF body_returns.n = 0 THEN [n |-> 1, first |-> body_bytes]
                  ELSE [body_returns EXCEPT !.n = 2]
            /\ UNCHANGED <<_json, _form, _files, calls>>
      [] op = "json" ->
            LET r == json_try(body_bytes)
                c == IF body_bytes # <<>>
                     THEN Parsed(calls, "json.loads", {"json"}) ELSE calls
            IN /\ IF r.exc = ""
                  THEN /\ _json' = stored(r.val)
                       /\ ret' = Ret(t, op, "return", <<>>, r.val)
                       /\ calls' = Returned(c, op, r.val)
                  ELSE /\ ret' = Ret(t, op, r.exc, <<>>, EmptyDict)
                       /\ calls' = c
                       /\ UNCHANGED _json
               /\ task' = [task EXCEPT ![t].pc = "idle", ![t].op = "", ![t].chunks = <<>>]
               /\ UNCHANGED <<_form, _files, body_returns>>
      [] op = "form" /\ content_type = "application/x-www-form-urlencoded" ->
            /\ _form' = Some(parse_qs(body_bytes))
            /\ ret' = Ret(t, op, "return", <<>>, parse_qs(body_bytes))
            /\ calls' = Returned(Parsed(calls, "parse_qs", {"form"}), op,
                                 parse_qs(body_bytes))
            /\ task' = [task EXCEPT ![t].pc = "idle", ![t].op = "", ![t].chunks = <<>>]
            /\ UNCHANGED <<_json, _files, body_returns>>
      [] OTHER ->
            \* _parse_multipart: parse_form_data runs in the executor
            /\ task' = [task EXCEPT ![t].pc = "mp_exec", ![t].op = op, ![t].chunks = <<>>]
            /\ calls' =
                  [Parsed(calls, "parse_form_data", {"form", "files"}) EXCEPT
                      !.mp = IF @ < 2 THEN @ + 1 ELSE 2,
                      !.overlap =
                          @ \/ \E u \in Tasks \ {t} : task[u].pc = "mp_exec"]
            /\ UNCHANGED <<_json, _form, _files, ret, body_returns>>

\* Method op of task t from the point where it calls body().
CallBody(t, op) ==
    LET entry == body_entry(_body, _is_stream_consumed)
    IN CASE entry = "cached" ->
                /\ AfterBody(t, op, _body.v)
                /\ UNCHANGED <<_body, _is_stream_consumed, receive>>
         [] entry = "RuntimeError" ->
                /\ ret' = Ret(t, op, "RuntimeError", <<>>, EmptyDict)
                /\ UNCHANGED <<_body, _json, _form, _files,
                               _is_stream_consumed, receive, task, body_returns,
                               calls>>
         [] OTHER ->
                LET e == stream_entry(_is_stream_consumed)
                IN IF e.exc # ""
                   THEN /\ ret' = Ret(t, op, e.exc, <<>>, EmptyDict)
                        /\ UNCHANGED <<_body, _json, _form, _files,
                                       _is_stream_consumed, receive, task,
                                       body_returns, calls>>
                   ELSE /\ _is_stream_consumed' = e.consumed
                        /\ task' = [task EXCEPT ![t].pc = "recv", ![t].op = op,
                                                ![t].chunks = <<>>]
                        /\ UNCHANGED <<_body, _json, _form, _files, receive, ret,
                                       body_returns, calls>>

\* await request.body()
body(t) ==
    /\ task[t].pc = "idle"
    /\ CallBody(t, "body")
    /\ UNCHANGED <<routerVars, appVars, req_method, content_type, request_body, readers>>

\* await request.json()
json(t) ==
    /\ task[t].pc = "idle"
    /\ IF ~_json.none
       THEN /\ ret' = Ret(t, "json", "return", <<>>, _json.v)
            /\ calls' = Returned(calls, "json", _json.v)
            /\ UNCHANGED <<_body, _json, _form, _files, _is_stream_consumed,
                           receive, task, body_returns>>
       ELSE IF NeedsBody("json") THEN CallBody(t, "json")
       ELSE /\ _json' = Some(EmptyDict)
            /\ ret' = Ret(t, "json", "return", <<>>, EmptyDict)
            /\ calls' = Returned(calls, "json", EmptyDict)
            /\ UNCHANGED <<_body, _form, _files, _is_stream_consumed,
                           receive, task, body_returns>>
    /\ UNCHANGED <<routerVars, appVars, req_method, content_type, request_body, readers>>

\* await request.form()
form(t) ==
    /\ task[t].pc = "idle"
    /\ IF ~_form.none
       THEN /\ ret' = Ret(t, "form", "return", <<>>, _form.v)
            /\ calls' = Returned(calls, "form", _form.v)
            /\ UNCHANGED <<_body, _json, _form, _files, _is_stream_consumed,
                           receive, task, body_returns>>
       ELSE IF NeedsBody("form") THEN CallBody(t, "form")
       ELSE /\ _form' = Some(EmptyDict)
            /\ ret' = Ret(t, "form", "return", <<>>, EmptyDict)
            /\ calls' = Returned(calls, "form", EmptyDict)
            /\ UNCHANGED <<_body, _json, _files, _is_stream_consumed,
                           receive, task, body_returns>>
    /\ UNCHANGED <<routerVars, appVars, req_method, content_type, request_body, readers>>

\* await request.files()
files(t) ==
    /\ task[t].pc = "idle"
    /\ IF ~_files.none
       THEN /\ ret' = Ret(t, "files", "return", <<>>, _files.v)
            /\ calls' = Returned(calls, "files", _files.v)
            /\ UNCHANGED <<_body, _json, _form, _files, _is_stream_consumed,
                           receive, task, body_returns>>
       ELSE IF NeedsBody("files") THEN CallBody(t, "files")
       ELSE /\ _files' = Some(EmptyDict)
            /\ ret' = Ret(t, "files", "return", <<>>, EmptyDict)
            /\ calls' = Returned(calls, "files", EmptyDict)
            /\ UNCHANGED <<_body, _json, _form, _is_stream_consumed,
                           receive, task, body_returns>>
    /\ UNCHANGED <<routerVars, appVars, req_method, content_type, request_body, readers>>

\* request.stream(): calling an async generator function runs none of its
\* body; the call hands back a generator object.
stream(t) ==
    /\ task[t].pc = "idle"
    /\ task[t].gen = "none"
    /\ task' = [task EXCEPT ![t].gen = "created"]
    /\ ret' = Ret(t, "stream", "generator", <<>>, EmptyDict)
    /\ UNCHANGED <<routerVars, appVars, req_method, content_type, _body, _json, _form,
                   _files, _is_stream_consumed, receive, request_body, readers,
                   body_returns, calls>>

\* One iteration step (__anext__) of the task's generator, up to its next
\* await or its end.
anext(t) ==
    /\ task[t].pc = "idle"
    /\ task[t].gen \in {"created", "more", "last"}
    /\ CASE task[t].gen = "created" ->
                LET e == stream_entry(_is_stream_consumed)
                IN IF e.exc # ""
                   THEN /\ task' = [task EXCEPT ![t].gen = "failed"]
                        /\ ret' = Ret(t, "anext", e.exc, <<>>, EmptyDict)
                        /\ UNCHANGED _is_stream_consumed
                   ELSE /\ _is_stream_consumed' = e.consumed
                        /\ task' = [task EXCEPT ![t].pc = "gen_recv"]
                        /\ UNCHANGED ret
         [] task[t].gen = "more" ->
                /\ task' = [task EXCEPT ![t].pc = "gen_recv"]
                /\ UNCHANGED <<ret, _is_stream_consumed>>
         [] OTHER ->
                /\ task' = [task EXCEPT ![t].gen = "done"]
                /\ ret' = Ret(t, "anext", "StopAsyncIteration", <<>>, EmptyDict)
                /\ UNCHANGED _is_stream_consumed
    /\ UNCHANGED <<routerVars, appVars, req_method, content_type, _body, _json, _form,
                   _files, receive, request_body, readers, body_returns, calls>>

\* stream() ending after its first chunk
has_more_never(chunk) == FALSE

\* chunk.get("more_body", False) of the loop of stream()
has_more(chunk) == chunk.more_body

\* receive() delivers the next message to the task that awaits it, and the
\* task runs on to its next await.
receive_chunk(t) ==
    /\ task[t].pc \in {"recv", "gen_recv"}
    /\ LET chunk == IF receive # <<>> THEN Head(receive) ELSE Disconnect
       IN /\ receive' = IF receive # <<>> THEN Tail(receive) ELSE receive
          /\ readers' = readers \cup {t}
          /\ IF task[t].pc = "gen_recv"
             THEN /\ task' = [task EXCEPT
                                 ![t].pc = "idle",
                                 ![t].gen = IF has_more(chunk) THEN "more" ELSE "last"]
                  /\ ret' = Ret(t, "anext", "chunk", chunk.body, EmptyDict)
                  /\ UNCHANGED <<_body, _json, _form, _files, body_returns,
                                 calls>>
             ELSE LET chunks == Append(task[t].chunks, chunk.body)
                  IN IF has_more(chunk)
                     THEN /\ task' = [task EXCEPT ![t].chunks = chunks]
                          /\ UNCHANGED <<_body, _json, _form, _files, ret,
                                         body_returns, calls>>
                     ELSE /\ _body' = Some(join(chunks))
                          /\ AfterBody(t, task[t].op, join(chunks))
    /\ UNCHANGED <<routerVars, appVars, req_method, content_type, _is_stream_consumed,
                   request_body>>

\* parse_form_data returns from the executor: _parse_multipart stores the
\* form and the files, and form() / files() returns its own.
parse_multipart_done(t) ==
    /\ task[t].pc = "mp_exec"
    /\ _form' = Some(EmptyDict)
    /\ _files' = Some(EmptyDict)
    /\ ret' = Ret(t, task[t].op, "return", <<>>, EmptyDict)
    /\ calls' = Returned(calls, task[t].op, EmptyDict)
    /\ task' = [task EXCEPT ![t].pc = "idle", ![t].op = ""]
    /\ UNCHANGED <<routerVars, appVars, req_method, content_type, _body, _json,
                   _is_stream_consumed, receive, request_body, readers,
                   body_returns>>

\* =============================================================== Response
\* A str is a sequence of characters and bytes a sequence of byte values; the
\* byte of an ASCII character is written as the character.  "e_acute",
\* "I_dot" (U+0130, the capital I with a dot above) and "dot_above" (U+0307,
\* the combining dot) are characters outside ASCII, two bytes each in UTF-8.
utf8(c) ==
    CASE c = "e_acute" -> <<"xC3", "xA9">>
      [] c = "I_dot" -> <<"xC4", "xB0">>
      [] c = "dot_above" -> <<"xCC", "x87">>
      [] OTHER -> <<c>>

\* str.encode("utf-8")
RECURSIVE encode(_)
encode(text) ==
    IF text = <<>> THEN <<>> ELSE utf8(Head(text)) \o encode(Tail(text))

\* bytes.decode("utf-8")
RECURSIVE decode(_)
decode(bytes) ==
    IF bytes = <<>> THEN <<>>
    ELSE IF Len(bytes) >= 2
            /\ \E c \in {"e_acute", "I_dot", "dot_above"} :
                   SubSeq(bytes, 1, 2) = utf8(c)
    THEN <<CHOOSE c \in {"e_acute", "I_dot", "dot_above"} :
               SubSeq(bytes, 1, 2) = utf8(c)>>
            \o decode(SubSeq(bytes, 3, Len(bytes)))
    ELSE <<Head(bytes)>> \o decode(Tail(bytes))

Str(text) == [t |-> "str", v |-> text]

Bytes(b) == [t |-> "bytes", v |-> b]

UpperCase ==
    <<"A", "B", "C", "D", "E", "F", "G", "H", "I", "J", "K", "L", "M", "N",
      "O", "P", "Q", "R", "S", "T", "U", "V", "W", "X", "Y", "Z">>

LowerCase ==
    <<"a", "b", "c", "d", "e", "f", "g", "h", "i", "j", "k", "l", "m", "n",
      "o", "p", "q", "r", "s", "t", "u", "v", "w", "x", "y", "z">>

\* str.lower() of one character: the lower case of U+0130 is two characters,
\* an i and the combining dot above
lower_char(c) ==
    IF c = "I_dot" THEN <<"i", "dot_above">>
    ELSE IF \E k \in DOMAIN UpperCase : UpperCase[k] = c
    THEN <<LowerCase[CHOOSE k \in DOMAIN UpperCase : UpperCase[k] = c]>>
    ELSE <<c>>

\* str.lower()
RECURSIVE lower(_)
lower(text) ==
    IF text = <<>> THEN <<>> ELSE lower_char(Head(text)) \o lower(Tail(text))

\* The positions where sub starts in text
Finds(text, sub) ==
    {i \in 1..(Len(text) - Len(sub) + 1) :
        SubSeq(text, i, i + Len(sub) - 1) = sub}

\* The characters of a number written as a Python string
RECURSIVE Join(_)
Join(chars) == IF chars = <<>> THEN "" ELSE Head(chars) \o Join(Tail(chars))

\* A headers dict: the items in insertion order.
HasKey(headers, k) == \E i \in DOMAIN headers : headers[i].k = k

\* headers[k] = v
SetItem(headers, k, v) ==
    IF HasKey(headers, k)
    THEN [i \in DOMAIN headers |->
             IF headers[i].k = k THEN [k |-> k, v |-> v] ELSE headers[i]]
    ELSE Append(headers, [k |-> k, v |-> v])

GetItem(headers, k) ==
    headers[CHOOSE i \in DOMAIN headers : headers[i].k = k].v

default_content_type(cls) ==
    CASE cls = "HTMLResponse" -> "text/html"
      [] cls = "JSONResponse" -> "application/json"
      [] OTHER -> "text/plain"

\* Response.__init__ of class cls; headers and content_type are optional
ResponseInit(cls, content, status_code, headers, ctype) ==
    LET hs == IF headers.none \/ headers.v = <<>> THEN <<>> ELSE headers.v
        final_content_type ==
            IF ctype.none \/ ctype.v = ""
            THEN default_content_type(cls) ELSE ctype.v
    IN [cls |-> cls, body |-> content, status_code |-> status_code,
        headers |-> IF HasKey(hs, "content-type") THEN hs
                    ELSE SetItem(hs, "content-type", final_content_type)]

NoHeaders == NoneArg(<<>>)

NoContentType == NoneArg("")

HTMLResponse(content) ==
    ResponseInit("HTMLResponse", content, 200, NoHeaders, NoContentType)

\* json.dumps({"error": message}), the message having nothing to escape
json_dumps_error(message) ==
    <<"{", "\"", "e", "r", "r", "o", "r", "\"", ":", " ", "\"">>
        \o message \o <<"\"", "}">>

\* JSONResponse({"error": message}, status_code=status_code)
JSONResponse(message, status_code) ==
    ResponseInit("JSONResponse", Str(json_dumps_error(message)), status_code,
                 NoHeaders, NoContentType)

\* Forbidden(): a Response of status 403 and content type text/html
Forbidden ==
    ResponseInit("Forbidden",
                 Str(<<"4", "0", "3", " ", "F", "o", "r", "b", "i", "d", "d",
                       "e", "n">>),
                 403, NoHeaders, Some("text/html"))

\* The arguments of set_cookie at their defaults
Cookie(key, value) ==
    [key |-> key, value |-> value, max_age |-> NoneArg(0),
     expires |-> NoneArg(""), path |-> Some("/"), domain |-> NoneArg(""),
     secure |-> FALSE, httponly |-> FALSE, samesite |-> Some("Lax")]

\* Response.set_cookie: the headers after the call
set_cookie(headers, c) ==
    LET cookie_val ==
            c.key \o "=" \o c.value
              \o (IF c.max_age.none THEN ""
                  ELSE "; Max-Age=" \o Join(NatToStr(c.max_age.v)))
              \o (IF c.expires.none THEN "" ELSE "; Expires=" \o c.expires.v)
              \o (IF c.path.none THEN "" ELSE "; Path=" \o c.path.v)
              \o (IF c.domain.none THEN "" ELSE "; Domain=" \o c.domain.v)
              \o (IF c.samesite.none THEN "" ELSE "; SameSite=" \o c.samesite.v)
              \o (IF c.secure THEN "; Secure" ELSE "")
              \o (IF c.httponly THEN "; HttpOnly" ELSE "")
    IN IF HasKey(headers, "Set-Cookie")
       THEN SetItem(headers, "Set-Cookie",
                    GetItem(headers, "Set-Cookie") \o "\n" \o cookie_val)
       ELSE SetItem(headers, "Set-Cookie", cookie_val)

\* Response.delete_cookie(key): set_cookie with the expiry date 1970-01-01
delete_cookie(headers, key) ==
    set_cookie(headers,
               [Cookie(key, "") EXCEPT
                   !.expires = Some("Thu, 01 Jan 1970 00:00:00 GMT")])

\* HTTP_STATUS_CODES.get(code, "Unknown Status")
HTTP_STATUS_CODES(code) ==
    CASE code = 200 -> "OK" [] code = 201 -> "Created"
      [] code = 202 -> "Accepted" [] code = 204 -> "No Content"
      [] code = 301 -> "Moved Permanently" [] code = 302 -> "Found"
      [] code = 304 -> "Not Modified" [] code = 307 -> "Temporary Redirect"
      [] code = 308 -> "Permanent Redirect" [] code = 400 -> "Bad Request"
      [] code = 401 -> "Unauthorized" [] code = 403 -> "Forbidden"
      [] code = 404 -> "Not Found" [] code = 405 -> "Method Not Allowed"
      [] code = 409 -> "Conflict" [] code = 422 -> "Unprocessable Entity"
      [] code = 500 -> "Internal Server Error" [] code = 501 -> "Not Implemented"
      [] code = 502 -> "Bad Gateway" [] code = 503 -> "Service Unavailable"
      [] OTHER -> "Unknown Status"

HtmlClose == <<"<", "/", "h", "t", "m", "l", ">">>

HeadClose == <<"<", "/", "h", "e", "a", "d", ">">>

\* The body HTMLResponse.__call__ stores before it calls Response.__call__:
\* a full page gets the script tag put in at the index where the last
\* </head> starts in the lower-cased body.
html_body(content, script) ==
    LET body_str == IF content.t = "str" THEN content.v ELSE decode(content.v)
        is_full_page == Finds(lower(body_str), HtmlClose) # {}
        script_tag ==
            <<"<", "s", "c", "r", "i", "p", "t", ">">> \o script
                \o <<"<", "/", "s", "c", "r", "i", "p", "t", ">">>
        points == Finds(lower(body_str), HeadClose)
        injected ==
            IF is_full_page /\ script # <<>> /\ points # {}
            THEN LET injection_point == SetMax(points)
                     cut == IF injection_point - 1 > Len(body_str)
                            THEN Len(body_str) ELSE injection_point - 1
                 IN SubSeq(body_str, 1, cut) \o script_tag
                        \o SubSeq(body_str, cut + 1, Len(body_str))
            ELSE body_str
    IN Bytes(encode(injected))

\* The response object as Response.__call__ leaves it: an HTMLResponse has
\* its body replaced, and content-length is set when the headers lack it.
\* serializing a response without setting content-length
serialized_no_length(resp, script) ==
    [resp EXCEPT !.body = IF resp.cls = "HTMLResponse"
                          THEN html_body(resp.body, script) ELSE resp.body]

\* content-length taken from the body as the object held it, in characters
serialized_text_length(resp, script) ==
    LET content == IF resp.cls = "HTMLResponse"
                   THEN html_body(resp.body, script) ELSE resp.body
    IN [resp EXCEPT
           !.body = content,
           !.headers = IF HasKey(resp.headers, "content-length")
                       THEN resp.headers
                       ELSE SetItem(resp.headers, "content-length",
                                    Join(NatToStr(Len(resp.body.v))))]

serialized(resp, script) ==
    LET content == IF resp.cls = "HTMLResponse"
                   THEN html_body(resp.body, script) ELSE resp.body
        body_bytes ==
            IF content.t = "bytes" THEN content.v ELSE encode(content.v)
    IN [resp EXCEPT
           !.body = content,
           !.headers = IF HasKey(resp.headers, "content-length")
                       THEN resp.headers
                       ELSE SetItem(resp.headers, "content-length",
                                    Join(NatToStr(Len(body_bytes))))]

\* The two events of Response.__call__
Event(type, status, headers, content) ==
    [type |-> type, status |-> status, headers |-> headers, body |-> content]

start_event(resp) ==
    Event("http.response.start", resp.status_code, resp.headers, <<>>)

body_event(resp) ==
    Event("http.response.body", 0, <<>>,
          IF resp.body.t = "bytes" THEN resp.body.v ELSE encode(resp.body.v))

NoResponse ==
    [cls |-> "", body |-> Str(<<>>), status_code |-> 0, headers |-> <<>>]

\* ------------------------------------------- the life of a Response object
\* The arguments of a constructor call: the class, the body (for a
\* JSONResponse the message of the error it reports), status_code, headers
\* and content_type.
Ctor(cls, content, status_code, headers, ctype) ==
    [cls |-> cls, content |-> content, status_code |-> status_code,
     headers |-> headers, ctype |-> ctype]

NoCtor == Ctor("", Str(<<>>), 0, NoHeaders, NoContentType)

\* The object the constructor call makes
construct(c) ==
    CASE c.cls = "Forbidden" -> Forbidden
      [] c.cls = "JSONResponse" -> JSONResponse(c.content.v, c.status_code)
      [] OTHER ->
            ResponseInit(c.cls, c.content, c.status_code, c.headers, c.ctype)

\* The headers arguments tried: none, the empty dict, and dicts that bring a
\* content type under a capitalised and under a lower-case key.
HeaderArgs ==
    {NoHeaders, Some(<<>>),
     Some(<<[k |-> "Content-Type", v |-> "text/html"]>>),
     Some(<<[k |-> "content-type", v |-> "x/y"]>>)}

HeadOpen == <<"<", "h", "e", "a", "d", ">">>

\* A full page: <head></head></html>
Page == HeadOpen \o HeadClose \o HtmlClose

\* The bodies of the HTML responses tried: a page, a fragment with a head and
\* no </html>, a page whose head holds U+0130, a page in capitals, a page
\* without a head, the page as bytes, and a text without tags.
HtmlBodies ==
    {Str(Page),
     Str(HeadOpen \o HeadClose),
     Str(HeadOpen \o <<"I_dot">> \o HeadClose \o HtmlClose),
     Str(<<"<", "/", "H", "E", "A", "D", ">", "<", "/", "H", "T", "M", "L", ">">>),
     Str(<<"a">> \o HtmlClose),
     Bytes(encode(Page)),
     Str(<<"a">>)}

CtorArgs ==
    {Ctor(cls, Str(<<"a">>), status, headers, ctype) :
        cls \in {"Response", "HTMLResponse"}, status \in {200, 201, 499},
        headers \in HeaderArgs, ctype \in {NoContentType, Some("text/css")}}
    \cup {Ctor("HTMLResponse", content, 200, NoHeaders, NoContentType) :
            content \in HtmlBodies}
    \cup {Ctor("JSONResponse", Str(<<"a">>), 404, NoHeaders, NoContentType),
          Ctor("Forbidden", Forbidden.body, 403, NoHeaders, Some("text/html"))}

CookieKeys == {"a", "b"}

\* cls(body, status_code, headers, content_type)
Construct ==
    /\ pc = "idle"
    /\ \E c \in CtorArgs :
          /\ ctor' = c
          /\ response' = construct(c)
    /\ pc' = "built"
    /\ UNCHANGED <<routerVars, requestVars, scope, req, frames, sent, exc,
                   session, log, returned, script_content, cookies, result>>

\* response.set_cookie(key, "1")
SetCookie ==
    /\ pc = "built"
    /\ Len(cookies) < MaxCookies
    /\ \E key \in CookieKeys :
          /\ response' = [response EXCEPT
                             !.headers = set_cookie(@, Cookie(key, "1"))]
          /\ cookies' = Append(cookies, Cookie(key, "1"))
    /\ UNCHANGED <<routerVars, requestVars, scope, req, pc, frames, sent, exc,
                   session, log, returned, script_content, ctor, result>>

\* response.delete_cookie(key)
DeleteCookie ==
    /\ pc = "built"
    /\ Len(cookies) < MaxCookies
    /\ \E key \in CookieKeys :
          /\ response' = [response EXCEPT !.headers = delete_cookie(@, key)]
          /\ cookies' =
                Append(cookies,
                       [Cookie(key, "") EXCEPT
                           !.expires = Some("Thu, 01 Jan 1970 00:00:00 GMT")])
    /\ UNCHANGED <<routerVars, requestVars, scope, req, pc, frames, sent, exc,
                   session, log, returned, script_content, ctor, result>>

\* await response(scope, receive, send): both events
Serialize ==
    /\ pc = "built"
    /\ response' = serialized(response, script_content)
    /\ sent' = <<start_event(response'), body_event(response')>>
    /\ pc' = "sent"
    /\ UNCHANGED <<routerVars, requestVars, scope, req, frames, exc, session,
                   log, returned, script_content, ctor, cookies, result>>

\* await response(scope, receive, send) of a response object that was sent
\* before: the same __call__ on the object as the earlier call left it
SerializeAgain ==
    /\ pc = "sent"
    /\ ctor # NoCtor
    /\ Len(sent) < 2 * MaxSerials
    /\ response' = serialized(response, script_content)
    /\ sent' = sent \o <<start_event(response'), body_event(response')>>
    /\ UNCHANGED <<routerVars, requestVars, scope, req, pc, frames, exc,
                   session, log, returned, script_content, ctor, cookies,
                   result>>

\* ============================================================ Application
\* The requests given to JsWebApp.__call__: the scope type, the path and the
\* method, the csrf_token cookie ("" for none) and the token the request
\* submits ("" for none).
AppPaths ==
    {<<"/", "a">>, <<"/", "7">>, <<"/", "b">>, <<"/", "s", "/", "a">>}

Scopes ==
    {[type |-> "http", path |-> p, method |-> m, cookie |-> c, token |-> k] :
        p \in AppPaths, m \in Methods, c \in {"", "k"}, k \in {"", "k", "z"}}
    \cup {[type |-> "websocket", path |-> <<"/", "a">>, method |-> "GET",
           cookie |-> "", token |-> ""]}

NoScope == [type |-> "", path |-> <<>>, method |-> "", cookie |-> "", token |-> ""]

NoReq == [csrf_token |-> "", new_csrf_token_generated |-> FALSE]

NoSession == [opened |-> 0, released |-> 0]

\* secrets.token_hex(32): a token no request carries
FreshToken == "fresh"

\* config.STATIC_URL
static_url == <<"/", "s">>

\* What a view function gives back: a str, a Response, a value that is
\* neither (kind "other"), or an exception (kind "raise").
HResult(kind, text, resp) == [kind |-> kind, text |-> text, resp |-> resp]

\* No view function was called.
NoResult == HResult("", <<>>, NoResponse)

HandlerResults ==
    {HResult("str", text, NoResponse) : text \in {<<"a">>, <<"e_acute">>, Page}}
    \cup {HResult("Response", <<>>, r) :
            r \in {ResponseInit("Response", Str(<<"a">>), 201, NoHeaders,
                                NoContentType),
                   ResponseInit("Response", Bytes(<<"a">>), 200,
                                Some(<<[k |-> "content-length", v |-> "1"]>>),
                                NoContentType)}}
    \cup {HResult("other", <<>>, NoResponse), HResult("raise", <<>>, NoResponse)}

\* The chain with the session stage outermost
middleware_chain_db_outermost == <<"db", "csrf", "static", "dispatch">>

\* The chain with the static stage inside the session stage
middleware_chain_db_before_static == <<"csrf", "db", "static", "dispatch">>

\* The chain without the CSRF stage
middleware_chain_without_csrf == <<"static", "db", "dispatch">>

\* The chain __call__ builds, outermost stage first: _asgi_app_handler is
\* wrapped by DBSessionMiddleware, that by StaticFilesMiddleware, that by
\* CSRFMiddleware.
middleware_chain == <<"csrf", "static", "db", "dispatch">>

\* The handler a middleware stage wraps
Inner(stage) ==
    middleware_chain[
        (CHOOSE i \in DOMAIN middleware_chain : middleware_chain[i] = stage) + 1]

Enter(stage) ==
    /\ frames' = Append(frames, stage)
    /\ log' = Append(log, stage)

\* No request is being handled.
AppIdle(script) ==
    /\ scope = NoScope
    /\ req = NoReq
    /\ pc = "idle"
    /\ frames = <<>>
    /\ response = NoResponse
    /\ sent = <<>>
    /\ exc = ""
    /\ session = NoSession
    /\ log = <<>>
    /\ returned = ""
    /\ script_content = script
    /\ ctor = NoCtor
    /\ cookies = <<>>
    /\ result = NoResult

\* JsWebApp.__call__ up to the call of the chain
AppCall ==
    /\ pc \in {"idle", "done"}
    /\ \E s \in Scopes :
          /\ scope' = s
          /\ IF s.type # "http"
             THEN /\ pc' = "done"
                  /\ req' = NoReq
             ELSE /\ req' = [csrf_token |-> IF s.cookie = "" THEN FreshToken
                                            ELSE s.cookie,
                             new_csrf_token_generated |-> s.cookie = ""]
                  /\ pc' = middleware_chain[1]
    /\ frames' = <<>>
    /\ response' = NoResponse
    /\ sent' = <<>>
    /\ exc' = ""
    /\ session' = NoSession
    /\ log' = <<>>
    /\ returned' = ""
    /\ cookies' = <<>>
    /\ result' = NoResult
    /\ UNCHANGED <<routerVars, requestVars, script_content, ctor>>

UnsafeMethods == {"POST", "PUT", "PATCH", "DELETE"}

\* The request has an unsafe method and submits no token that equals its
\* token cookie.
csrf_rejects(s) ==
    s.method \in UnsafeMethods /\ (s.cookie = "" \/ s.token # s.cookie)

\* CSRFMiddleware.__call__: a request it rejects is answered here, any other
\* goes on to the inner handler.
CSRFMiddleware ==
    /\ pc = "csrf"
    /\ Enter("csrf")
    /\ IF csrf_rejects(scope)
       THEN /\ response' = Forbidden
            /\ pc' = "send"
       ELSE /\ pc' = Inner("csrf")
            /\ UNCHANGED response
    /\ UNCHANGED <<routerVars, requestVars, scope, req, sent, exc, session,
                   returned, script_content, ctor, cookies, result>>

\* The path lies under the static prefix.
is_static(path) ==
    /\ Len(path) > Len(static_url)
    /\ SubSeq(path, 1, Len(static_url) + 1) = static_url \o <<"/">>

\* StaticFilesMiddleware.__call__: a path under the static prefix is served
\* here, the bytes of the file; any other goes on to the inner handler.
StaticFilesMiddleware ==
    /\ pc = "static"
    /\ Enter("static")
    /\ IF is_static(scope.path)
       THEN /\ response' = ResponseInit("Response", Bytes(<<"a">>), 200,
                                        NoHeaders, NoContentType)
            /\ pc' = "send"
       ELSE /\ pc' = Inner("static")
            /\ UNCHANGED response
    /\ UNCHANGED <<routerVars, requestVars, scope, req, sent, exc, session,
                   returned, script_content, ctor, cookies, result>>

\* DBSessionMiddleware.__call__ up to the call of the inner handler: the
\* session is opened.
DBSessionMiddleware ==
    /\ pc = "db"
    /\ Enter("db")
    /\ session' = [session EXCEPT !.opened = @ + 1]
    /\ pc' = Inner("db")
    /\ UNCHANGED <<routerVars, requestVars, scope, req, response, sent, exc,
                   returned, script_content, ctor, cookies, result>>

\* The end of DBSessionMiddleware.__call__, on a return and on an exception
\* of the inner handler alike: the session is released, an exception goes on.
DBSessionRelease ==
    /\ pc = "return"
    /\ frames # <<>> /\ frames[Len(frames)] = "db"
    /\ frames' = SubSeq(frames, 1, Len(frames) - 1)
    /\ session' = [session EXCEPT !.released = @ + 1]
    /\ UNCHANGED <<routerVars, requestVars, scope, req, pc, response, sent,
                   exc, log, returned, script_content, ctor, cookies, result>>

\* The response _asgi_app_handler sends when resolve raises
\* answering a path no route matches as an internal error
dispatch_error_response_generic(kind) ==
    CASE kind = "MethodNotAllowed" -> JSONResponse(<<>>, 405)
      [] OTHER ->
            JSONResponse(<<"I", "n", "t", "e", "r", "n", "a", "l", " ", "S",
                           "e", "r", "v", "e", "r", " ", "E", "r", "r", "o",
                           "r">>, 500)

\* str(e) of a NotFound or MethodNotAllowed raised without arguments is ""
dispatch_error_response(kind) ==
    CASE kind = "NotFound" -> JSONResponse(<<>>, 404)
      [] kind = "MethodNotAllowed" -> JSONResponse(<<>>, 405)
      [] OTHER ->
            JSONResponse(<<"I", "n", "t", "e", "r", "n", "a", "l", " ", "S",
                           "e", "r", "v", "e", "r", " ", "E", "r", "r", "o",
                           "r">>, 500)

\* _asgi_app_handler returning from a failed resolve without sending the
\* response it made
Dispatch_unsent ==
    /\ pc = "dispatch"
    /\ Enter("dispatch")
    /\ LET out == resolve(scope.path, scope.method)
       IN IF out.kind = "ok"
          THEN /\ pc' = "handler"
               /\ UNCHANGED response
          ELSE /\ response' = dispatch_error_response(out.kind)
               /\ pc' = "return"
    /\ UNCHANGED <<routerVars, requestVars, scope, req, sent, exc, session,
                   returned, script_content, ctor, cookies, result>>

\* _asgi_app_handler up to the call of the view function
Dispatch ==
    /\ pc = "dispatch"
    /\ Enter("dispatch")
    /\ LET out == resolve(scope.path, scope.method)
       IN IF out.kind = "ok"
          THEN /\ pc' = "handler"
               /\ UNCHANGED response
          ELSE /\ response' = dispatch_error_response(out.kind)
               /\ pc' = "send"
    /\ UNCHANGED <<routerVars, requestVars, scope, req, sent, exc, session,
                   returned, script_content, ctor, cookies, result>>

\* _asgi_app_handler wrapping a str in a plain Response
view_response_plain(r) ==
    CASE r.kind = "str" ->
            [exc |-> "",
             resp |-> ResponseInit("Response", Str(r.text), 200, NoHeaders,
                                   NoContentType)]
      [] r.kind = "Response" -> [exc |-> "", resp |-> r.resp]
      [] OTHER -> [exc |-> "TypeError", resp |-> NoResponse]

\* What _asgi_app_handler makes of the value the view function returned: the
\* response to send, or the TypeError
view_response(r) ==
    CASE r.kind = "str" ->
            [exc |-> "", resp |-> HTMLResponse(Str(r.text))]
      [] r.kind = "Response" -> [exc |-> "", resp |-> r.resp]
      [] OTHER -> [exc |-> "TypeError", resp |-> NoResponse]

\* _asgi_app_handler from the call of the view function to the response it
\* is about to send
InvokeHandler ==
    /\ pc = "handler"
    /\ log' = Append(log, "handler")
    /\ \E r \in HandlerResults :
          /\ returned' = r.kind
          /\ result' = r
          /\ IF r.kind = "raise"
             THEN /\ exc' = "HandlerError"
                  /\ pc' = "return"
                  /\ UNCHANGED <<response, cookies>>
             ELSE LET v == view_response(r)
                  IN IF v.exc # ""
                     THEN /\ exc' = v.exc
                          /\ pc' = "return"
                          /\ UNCHANGED <<response, cookies>>
                     ELSE /\ response' =
                               IF req.new_csrf_token_generated
                               THEN [v.resp EXCEPT !.headers =
                                        set_cookie(@, Cookie("csrf_token",
                                                             req.csrf_token))]
                               ELSE v.resp
                          /\ cookies' =
                               IF req.new_csrf_token_generated
                               THEN <<Cookie("csrf_token", req.csrf_token)>>
                               ELSE <<>>
                          /\ pc' = "send"
                          /\ UNCHANGED exc
    /\ UNCHANGED <<routerVars, requestVars, scope, req, frames, sent, session,
                   script_content, ctor>>

\* Response.__call__ up to the first send
SendStart ==
    /\ pc = "send"
    /\ response' = serialized(response, script_content)
    /\ sent' = Append(sent, start_event(response'))
    /\ pc' = "send_body"
    /\ UNCHANGED <<routerVars, requestVars, scope, req, frames, exc, session,
                   log, returned, script_content, ctor, cookies, result>>

\* Response.__call__ from the first send to its end
SendBody ==
    /\ pc = "send_body"
    /\ sent' = Append(sent, body_event(response))
    /\ pc' = "return"
    /\ UNCHANGED <<routerVars, requestVars, scope, req, frames, response, exc,
                   session, log, returned, script_content, ctor, cookies, result>>

\* A stage other than the session stage returns, or lets the exception go up;
\* with no stage left __call__ ends.
Return ==
    /\ pc = "return"
    /\ IF frames = <<>>
       THEN /\ pc' = "done"
            /\ UNCHANGED frames
       ELSE /\ frames[Len(frames)] # "db"
            /\ frames' = SubSeq(frames, 1, Len(frames) - 1)
            /\ UNCHANGED pc
    /\ UNCHANGED <<routerVars, requestVars, scope, req, response, sent, exc,
                   session, log, returned, script_content, ctor, cookies, result>>

\* ================================================================= Router
\* ---------------------------------------------------------------- actions
NoRegCall ==
    [op |-> "", path |-> <<>>, handler |-> "", endpoint |-> NoneArg("")]

RegCall(op, path, handler, endpoint) ==
    [op |-> op, path |-> path, handler |-> handler, endpoint |-> endpoint]

NoUrlCall ==
    [endpoint |-> "", params |-> <<>>, out |-> [kind |-> "none", path |-> <<>>]]

NoCall == [path |-> <<>>, method |-> "", out |-> [kind |-> "none", handler |-> "", params |-> EmptyMap]]

\* Router.__init__, and JsWebApp.__init__ for the blueprint list
RouterInit ==
    /\ routes = <<>>
    /\ endpoints = EmptyMap
    /\ reg = ""
    /\ rcall = NoCall
    /\ regcall = NoRegCall
    /\ ucall = NoUrlCall
    /\ blueprints_with_static_files = {}

InitRouter ==
    /\ RouterInit
    /\ RequestInit("GET", "text/plain", <<Chunk(<<>>, FALSE)>>)
    /\ AppIdle(<<>>)

\* router.add_route(path, handler, methods, endpoint)
AddRoute ==
    \E path \in Patterns, handler \in Handlers, methods \in MethodArgs,
       endpoint \in EndpointArgs :
        /\ Len(routes) < MaxRoutes
        /\ LET r == add_route(Router, path, handler, methods, endpoint)
           IN /\ routes' = r.routes
              /\ endpoints' = r.endpoints
              /\ reg' = IF r.exc = "" THEN "ok" ELSE r.exc
        /\ regcall' = RegCall("add_route", path, handler, endpoint)
        /\ rcall' = NoCall
        /\ ucall' = NoUrlCall
        /\ UNCHANGED <<blueprints_with_static_files, requestVars, appVars>>

\* router.route(path, methods, endpoint)(handler): the decorator registers the
\* handler by add_route and hands it back.
RouteDecorator ==
    \E path \in Patterns, handler \in Handlers, methods \in MethodArgs,
       endpoint \in EndpointArgs :
        /\ Len(routes) < MaxRoutes
        /\ LET r == add_route(Router, path, handler, methods, endpoint)
           IN /\ routes' = r.routes
              /\ endpoints' = r.endpoints
              /\ reg' = IF r.exc = "" THEN "ok" ELSE r.exc
        /\ regcall' = RegCall("route", path, handler, endpoint)
        /\ rcall' = NoCall
        /\ ucall' = NoUrlCall
        /\ UNCHANGED <<blueprints_with_static_files, requestVars, appVars>>

\* app.register_blueprint(blueprint)
RegisterBlueprint ==
    \E blueprint \in Blueprints :
        /\ Len(routes) + Len(blueprint.routes) <= MaxRoutes
        /\ LET r == register_blueprint(Router, blueprint)
           IN /\ routes' = r.routes
              /\ endpoints' = r.endpoints
              /\ reg' = IF r.exc = "" THEN "ok" ELSE r.exc
              /\ blueprints_with_static_files' =
                     IF r.exc = "" /\ blueprint.static_folder
                     THEN blueprints_with_static_files \cup {blueprint.name}
                     ELSE blueprints_with_static_files
        /\ regcall' = RegCall("register_blueprint", <<>>, "",
                           Some(blueprint.name))
        /\ rcall' = NoCall
        /\ ucall' = NoUrlCall
        /\ UNCHANGED <<requestVars, appVars>>

\* router.resolve(path, method)
Resolve ==
    \E path \in Paths, method \in Methods :
        /\ rcall' = [path |-> path, method |-> method,
                     out |-> resolve(path, method)]
        /\ routes' = resolve_effect(Router, path, method).routes
        /\ endpoints' = resolve_effect(Router, path, method).endpoints
        /\ reg' = ""
        /\ regcall' = NoRegCall
        /\ ucall' = NoUrlCall
        /\ UNCHANGED <<blueprints_with_static_files, requestVars, appVars>>

\* router.url_for(endpoint, **params)
UrlFor ==
    \E endpoint \in UrlEndpoints, params \in UrlParams :
        /\ ucall' = [endpoint |-> endpoint, params |-> params,
                     out |-> url_for(Router, endpoint, params)]
        /\ routes' = url_for_effect(Router, endpoint, params).routes
        /\ endpoints' = url_for_effect(Router, endpoint, params).endpoints
        /\ reg' = ""
        /\ regcall' = NoRegCall
        /\ rcall' = NoCall
        /\ UNCHANGED <<blueprints_with_static_files, requestVars, appVars>>

\* app.register_blueprint(blueprint) of the blueprints with prefixes
RegisterPrefixedBlueprint ==
    \E blueprint \in PrefixedBlueprints :
        /\ Len(routes) + Len(blueprint.routes) <= MaxRoutes
        /\ LET r == register_blueprint(Router, blueprint)
           IN /\ routes' = r.routes
              /\ endpoints' = r.endpoints
              /\ reg' = IF r.exc = "" THEN "ok" ELSE r.exc
              /\ blueprints_with_static_files' =
                     IF r.exc = "" /\ blueprint.static_folder
                     THEN blueprints_with_static_files \cup {blueprint.name}
                     ELSE blueprints_with_static_files
        /\ regcall' = RegCall("register_blueprint", <<>>, "",
                              Some(blueprint.name))
        /\ rcall' = NoCall
        /\ ucall' = NoUrlCall
        /\ UNCHANGED <<requestVars, appVars>>

\* The endpoint names of the blueprint routes
BlueprintEndpoints ==
    UNION {{full_endpoint(b, b.routes[i].endpoint) : i \in DOMAIN b.routes} :
              b \in PrefixedBlueprints}

\* router.url_for(endpoint, **params) of a blueprint endpoint
BlueprintUrlFor ==
    \E endpoint \in BlueprintEndpoints,
       params \in {<<>>, <<KV("id", IntVal(7))>>,
                   <<KV("name", StrVal(<<"a">>))>>} :
        /\ ucall' = [endpoint |-> endpoint, params |-> params,
                     out |-> url_for(Router, endpoint, params)]
        /\ routes' = url_for_effect(Router, endpoint, params).routes
        /\ endpoints' = url_for_effect(Router, endpoint, params).endpoints
        /\ reg' = ""
        /\ regcall' = NoRegCall
        /\ rcall' = NoCall
        /\ UNCHANGED <<blueprints_with_static_files, requestVars, appVars>>

\* router.resolve(path, method) of the paths under the prefix
BlueprintResolve ==
    \E path \in {<<"/", "p", "/", "a">>, <<"/", "p", "/", "7">>,
                  <<"/", "p", "/", "$">>, <<"/", "p", "/">>,
                  <<"/", "a">>, <<"/", "7">>},
       method \in Methods :
        /\ rcall' = [path |-> path, method |-> method,
                     out |-> resolve(path, method)]
        /\ routes' = resolve_effect(Router, path, method).routes
        /\ endpoints' = resolve_effect(Router, path, method).endpoints
        /\ reg' = ""
        /\ regcall' = NoRegCall
        /\ ucall' = NoUrlCall
        /\ UNCHANGED <<blueprints_with_static_files, requestVars, appVars>>

NextBlueprint ==
    RegisterPrefixedBlueprint \/ BlueprintUrlFor \/ BlueprintResolve

SpecBlueprint == InitRouter /\ [][NextBlueprint]_vars

\* router.add_route(path, handler) of a pattern without placeholders, on the
\* empty router
AddLiteralRoute ==
    \E path \in LiteralPatterns :
        /\ routes = <<>>
        /\ LET r == add_route(Router, path, "h1", NoneArg(<<>>), NoneArg(""))
           IN /\ routes' = r.routes
              /\ endpoints' = r.endpoints
              /\ reg' = IF r.exc = "" THEN "ok" ELSE r.exc
        /\ regcall' = RegCall("add_route", path, "h1", NoneArg(""))
        /\ rcall' = NoCall
        /\ ucall' = NoUrlCall
        /\ UNCHANGED <<blueprints_with_static_files, requestVars, appVars>>

\* router.resolve(path, "GET") of any short text
ResolveText ==
    \E path \in MatchPaths :
        /\ routes # <<>>
        /\ rcall' = [path |-> path, method |-> "GET",
                     out |-> resolve(path, "GET")]
        /\ routes' = resolve_effect(Router, path, "GET").routes
        /\ endpoints' = resolve_effect(Router, path, "GET").endpoints
        /\ reg' = ""
        /\ regcall' = NoRegCall
        /\ ucall' = NoUrlCall
        /\ UNCHANGED <<blueprints_with_static_files, requestVars, appVars>>

NextMatch == AddLiteralRoute \/ ResolveText

SpecMatch == InitRouter /\ [][NextMatch]_vars

NextRouter ==
    AddRoute \/ RouteDecorator \/ RegisterBlueprint \/ Resolve \/ UrlFor

SpecRouter == InitRouter /\ [][NextRouter]_vars

\* =========================================================== Router claims
\* Route i of the router matches the path (its match is not None).
Matches(i, p) == match(routes[i], p).some

\* The first route in registration order that matches p, 0 when none does.
FirstMatch(p) ==
    IF \E i \in DOMAIN routes : Matches(i, p)
    THEN SetMin({i \in DOMAIN routes : Matches(i, p)})
    ELSE 0

Resolved == rcall.out.kind # "none"

\* C1: when route R1 was registered before route R2, both match the path and
\* no route before R1 does, resolve with a method of R1 returns R1's handler
\* and R1's extracted params.
C1_FirstRegisteredWins ==
    Resolved =>
        \A i, j \in DOMAIN routes :
            (/\ i < j
             /\ Matches(i, rcall.path) /\ Matches(j, rcall.path)
             /\ \A k \in 1..(i - 1) : ~Matches(k, rcall.path)
             /\ rcall.method \in Range(routes[i].methods))
            => /\ rcall.out.kind = "ok"
               /\ rcall.out.handler = routes[i].handler
               /\ rcall.out.params = match(routes[i], rcall.path).params

\* A resolve that had two matching routes of different handlers and params
\* to choose from, and returned.
C1_Witness ==
    /\ rcall.out.kind = "ok"
    /\ \E i, j \in DOMAIN routes :
          /\ i < j
          /\ Matches(i, rcall.path) /\ Matches(j, rcall.path)
          /\ rcall.method \in Range(routes[i].methods)
          /\ rcall.method \in Range(routes[j].methods)
          /\ routes[i].handler # routes[j].handler
          /\ match(routes[i], rcall.path).params
                # match(routes[j], rcall.path).params

\* C2: resolve fails with MethodNotAllowed when the first matching route does
\* not allow the method, also when a later route matches and allows it.
C2_MethodMismatchStopsScan ==
    (Resolved /\ FirstMatch(rcall.path) # 0
       /\ rcall.method \notin Range(routes[FirstMatch(rcall.path)].methods))
    => rcall.out = MethodNotAllowed

\* A resolve that failed with MethodNotAllowed although a later route matches
\* the path and allows the method.
C2_Witness ==
    /\ rcall.out.kind = "MethodNotAllowed"
    /\ \E j \in DOMAIN routes :
          /\ j > FirstMatch(rcall.path)
          /\ Matches(j, rcall.path)
          /\ rcall.method \in Range(routes[j].methods)

\* C3: resolve fails with NotFound exactly when no registered route matches
\* the path.
C3_NotFoundIffNoMatch ==
    Resolved =>
        ((rcall.out.kind = "NotFound") <=>
            (\A i \in DOMAIN routes : ~Matches(i, rcall.path)))

\* A GET-only route resolved with POST: MethodNotAllowed, not NotFound.
C3_Witness ==
    /\ rcall.method = "POST"
    /\ rcall.out.kind = "MethodNotAllowed"
    /\ \E i \in DOMAIN routes :
          Matches(i, rcall.path) /\ routes[i].methods = <<"GET">>

\* C10: no two routes of Router.routes have the same endpoint name, and
\* Router.endpoints maps every registered endpoint name to the route of
\* Router.routes that carries it; the list and the mapping have the same size.
C10_EndpointsUnique ==
    /\ \A i, j \in DOMAIN routes :
          routes[i].endpoint = routes[j].endpoint => i = j
    /\ DOMAIN endpoints = {routes[i].endpoint : i \in DOMAIN routes}
    /\ \A i \in DOMAIN routes : endpoints[routes[i].endpoint] = routes[i]
    /\ Cardinality(DOMAIN endpoints) = Len(routes)

\* A register_blueprint that failed half way: its first route is registered,
\* its second raised the duplicate-endpoint error.
C10_Witness ==
    /\ reg = "ValueError"
    /\ DOMAIN endpoints = {"b.f"}
    /\ Len(routes) = 1

\* The endpoint name a registration call registers under.
EndpointOf(call) ==
    IF call.endpoint.none THEN HandlerName(call.handler) ELSE call.endpoint.v

\* C11: add_route, and the route decorator, called with an endpoint name that
\* is already registered (given, or taken from the name of the handler when
\* omitted) fails with ValueError and leaves the router as it was.
C11_DuplicateEndpointFails ==
    [][(/\ regcall'.op \in {"add_route", "route"}
        /\ EndpointOf(regcall') \in DOMAIN endpoints)
       => /\ reg' = "ValueError"
          /\ routes' = routes
          /\ endpoints' = endpoints]_vars

\* The decorator was refused a second view function of the same __name__,
\* the endpoint being omitted.
C11_Witness ==
    /\ reg = "ValueError"
    /\ regcall.op = "route" /\ regcall.endpoint.none
    /\ \E i \in DOMAIN routes :
          /\ routes[i].endpoint = HandlerName(regcall.handler)
          /\ routes[i].handler # regcall.handler

\* C34: an add_route, or a route decorator, that fails (its endpoint name is
\* registered already, or its pattern does not compile) leaves Router.routes
\* and Router.endpoints as they were before the call.
C34_FailedAddRouteChangesNothing ==
    [][(/\ regcall'.op \in {"add_route", "route"}
        /\ reg' # "ok")
       => /\ routes' = routes
          /\ endpoints' = endpoints]_vars

\* An add_route of a pattern that does not compile was refused by a router
\* that holds a route, under an endpoint name that is not registered.
C34_Witness ==
    /\ reg = "re.error"
    /\ regcall.op = "add_route"
    /\ Len(routes) = 1
    /\ EndpointOf(regcall) \notin DOMAIN endpoints

\* The url_for call was made, on a registered endpoint.
UrlCalled == ucall.out.kind # "none"

UrlRoute == endpoints[ucall.endpoint]

\* The typed placeholders of a pattern
Placeholders(path) == {path[i] : i \in {j \in DOMAIN path : path[j].k = "ph"}}

\* A value the placeholder type accepts: a non-negative integer for int, a
\* non-empty text without '/' for str, a non-empty text for path.
ValidFor(type, v) ==
    CASE type = "int" -> v.t = "int" /\ v.n >= 0
      [] type = "path" -> v.t = "str" /\ v.s # <<>>
      [] OTHER -> v.t = "str" /\ v.s # <<>> /\ "/" \notin Range(v.s)

\* The params name exactly the placeholders of the route, with valid values.
SuppliedValid(route, params) ==
    /\ Placeholders(route.path) # {}
    /\ Keys(params) = {ph.name : ph \in Placeholders(route.path)}
    /\ \A ph \in Placeholders(route.path) :
          ValidFor(ph.type, Value(params, ph.name))

\* C12: for a registered route with typed placeholders and valid values for
\* them, url_for returns a path that the route matches, and the match gives
\* back exactly the supplied params.
C12_UrlForRoundTrip ==
    (/\ UrlCalled
     /\ ucall.endpoint \in DOMAIN endpoints
     /\ SuppliedValid(UrlRoute, ucall.params))
    => /\ ucall.out.kind = "ok"
       /\ match(UrlRoute, ucall.out.path).some
       /\ match(UrlRoute, ucall.out.path).params
             = [n \in Keys(ucall.params) |-> Value(ucall.params, n)]

\* Does the text s hold the text sub?
Contains(s, sub) ==
    \E i \in 1..(Len(s) - Len(sub) + 1) : SubSeq(s, i, i + Len(sub) - 1) = sub

\* C13: url_for fails on an endpoint that is not registered and when a
\* placeholder of the pattern has no value in params; a path it returns holds
\* no placeholder of the pattern.
C13_UrlForFailsOrSubstitutes ==
    UrlCalled =>
        /\ ucall.endpoint \notin DOMAIN endpoints
              => ucall.out.kind = "ValueError" /\ ucall.out.path = <<>>
        /\ (/\ ucall.endpoint \in DOMAIN endpoints
            /\ \E ph \in Placeholders(UrlRoute.path) :
                  ph.name \notin Keys(ucall.params))
              => ucall.out.kind = "ValueError" /\ ucall.out.path = <<>>
        /\ (ucall.out.kind = "ok")
              => \A ph \in Placeholders(UrlRoute.path) :
                    ~Contains(ucall.out.path, ToText(<<ph>>))

\* The number a text of digits writes, read from its first digit on
RECURSIVE C14_Value(_, _)
C14_Value(seg, acc) ==
    IF seg = <<>> THEN acc
    ELSE C14_Value(Tail(seg), 10 * acc + DigitValue(Head(seg)))

\* Route i is literal text around one <int:name> placeholder at position k.
IntRoute(i, k) ==
    /\ routes[i].path[k].k = "ph" /\ routes[i].path[k].type = "int"
    /\ \A q \in DOMAIN routes[i].path \ {k} : routes[i].path[q].k = "lit"

\* The path p has the literal text of route i around position k.
SameLiterals(i, k, p) ==
    LET pat == routes[i].path
        tail == Len(pat) - k
    IN /\ Len(p) >= Len(pat)
       /\ \A q \in 1..(k - 1) : p[q] = pat[q].c
       /\ \A q \in 1..tail : p[Len(p) - tail + q] = pat[k + q].c

\* The segment of p at the position of the placeholder
Segment(i, k, p) == SubSeq(p, k, Len(p) - (Len(routes[i].path) - k))

AllDigits(seg) == seg # <<>> /\ \A q \in DOMAIN seg : seg[q] \in Digits

\* C14: for a route with an <int:name> placeholder, a path whose segment there
\* is all digits matches with params[name] the integer those digits write,
\* and resolves to it when that route is the first match and allows the
\* method; a path whose segment is not all digits does not match the route,
\* and resolves to NotFound when no route matches.  resolve raises nothing
\* but NotFound and MethodNotAllowed.
C14_IntPlaceholder ==
    Resolved =>
        /\ rcall.out.kind \in {"ok", "NotFound", "MethodNotAllowed"}
        /\ \A i \in DOMAIN routes : \A k \in DOMAIN routes[i].path :
              (IntRoute(i, k) /\ SameLiterals(i, k, rcall.path)) =>
                LET seg == Segment(i, k, rcall.path)
                    name == routes[i].path[k].name
                IN IF AllDigits(seg)
                   THEN /\ Matches(i, rcall.path)
                        /\ match(routes[i], rcall.path).params[name]
                              = IntVal(C14_Value(seg, 0))
                        /\ (/\ FirstMatch(rcall.path) = i
                            /\ rcall.method \in Range(routes[i].methods))
                           => /\ rcall.out.kind = "ok"
                              /\ rcall.out.params[name]
                                    = IntVal(C14_Value(seg, 0))
                   ELSE /\ ~Matches(i, rcall.path)
                        /\ (\A j \in DOMAIN routes : ~Matches(j, rcall.path))
                           => rcall.out = NotFound

\* "/7" resolved on the route "/<int:id>" with the integer 7.
C14_Witness ==
    /\ rcall.out.kind = "ok"
    /\ rcall.path = <<"/", "7">>
    /\ rcall.out.params = ("id" :> IntVal(7))
    /\ routes[FirstMatch(rcall.path)].path = PatInt

\* C28: a route whose pattern has no placeholders matches a path if and only
\* if the path is the text of the pattern, character for character.
C28_LiteralMatchesExactly ==
    Resolved =>
        \A i \in DOMAIN routes :
            Placeholders(routes[i].path) = {}
            => (Matches(i, rcall.path) <=> rcall.path = ToText(routes[i].path))

\* A placeholder name occurs more than once in the pattern.
HasDuplicateName(path) ==
    \E i, j \in DOMAIN path :
        /\ i # j
        /\ path[i].k = "ph" /\ path[j].k = "ph"
        /\ path[i].name = path[j].name

\* C27: add_route, and the route decorator, called with a pattern in which a
\* placeholder name occurs more than once fails and leaves the router as it
\* was; no route of the router has such a pattern.
C27_DuplicateNameRejected ==
    [][/\ (/\ regcall'.op \in {"add_route", "route"}
           /\ HasDuplicateName(regcall'.path))
          => /\ reg' \in {"re.error", "ValueError"}
             /\ routes' = routes
             /\ endpoints' = endpoints
       /\ \A i \in DOMAIN routes' : ~HasDuplicateName(routes'[i].path)]_vars

\* "/<int:id>/<int:id>" was refused under a free endpoint name by a router
\* that holds a route.
C27_Witness ==
    /\ reg = "re.error"
    /\ regcall.op = "add_route" /\ regcall.path = PatDup
    /\ Len(routes) = 1
    /\ EndpointOf(regcall) \notin DOMAIN endpoints

\* C26: resolve and url_for leave Router.routes (content and order),
\* Router.endpoints and every route's pattern, matcher, methods and
\* converters as they were, whether the call returns or raises.
C26_LookupsLeaveRouter ==
    [][(rcall'.out.kind # "none" \/ ucall'.out.kind # "none")
       => (routes' = routes /\ endpoints' = endpoints)]_vars

\* url_for built a path from a pattern with a placeholder, and the route
\* still has its pattern.
C26_Witness ==
    /\ ucall.out.kind = "ok"
    /\ ucall.out.path = <<"/", "7">>
    /\ endpoints[ucall.endpoint].path = PatInt
    /\ routes[1] = endpoints[ucall.endpoint]

\* ========================================================== Request claims
BodyOps == {"body", "json", "form", "files"}

ParseOps == {"json", "form", "files"}

\* Task t calls the public method op.
Call(t, op) ==
    CASE op = "body" -> body(t)
      [] op = "json" -> json(t)
      [] op = "form" -> form(t)
      [] OTHER -> files(t)

\* Some generator of stream() has begun to be iterated: it is streaming
\* (awaiting a chunk, or suspended after one) or was consumed to its end.
StreamBegun ==
    \E u \in Tasks :
        task[u].pc = "gen_recv" \/ task[u].gen \in {"more", "last", "done"}

\* Another task than t is in the middle of reading the body.
Busy(t) ==
    \E u \in Tasks \ {t} :
        task[u].pc \in {"recv", "gen_recv"} \/ task[u].gen = "more"

Failed(t, op) == Ret(t, op, "RuntimeError", <<>>, EmptyDict)

\* C4: once receive() has delivered the final chunk, no operation on the
\* Request calls receive() again.
C4_BodyConsumedAtMostOnce ==
    receive = <<>> => \A t \in Tasks : task[t].pc \notin {"recv", "gen_recv"}

\* A stream was consumed to its end and a later body() was refused.
C4_Witness ==
    /\ receive = <<>>
    /\ ret.op = "body" /\ ret.kind = "RuntimeError"
    /\ \E u \in Tasks : task[u].gen = "done"

\* C5: with no body cached, once a stream has begun to be consumed every call
\* of body(), direct or from json(), form() or files(), fails with
\* RuntimeError, returns nothing and reads nothing from the transport.
C5_BodyAfterStreamFails ==
    [][\A t \in Tasks, op \in BodyOps :
          (StreamBegun /\ _body.none /\ NeedsBody(op) /\ Call(t, op))
          => /\ ret' = Failed(t, op)
             /\ receive' = receive
             /\ readers' = readers
             /\ task'[t].pc = "idle"]_vars

\* body() was refused while a stream is suspended between two chunks.
C5_Witness ==
    /\ ret.op = "body" /\ ret.kind = "RuntimeError"
    /\ _body.none
    /\ \E u \in Tasks \ {ret.task} : task[u].gen = "more"

\* C6: once a call of body() has returned, every later call of body() returns
\* the same bytes and reads nothing from the transport.
C6_BodyIdempotent ==
    [][\A t \in Tasks :
          (body_returns.n > 0 /\ body(t))
          => /\ ret' = Ret(t, "body", "return", body_returns.first, EmptyDict)
             /\ receive' = receive
             /\ readers' = readers
             /\ task'[t].pc = "idle"]_vars

\* A second call of body() returned, on a request with the empty body.
C6_Witness ==
    /\ body_returns.n = 2 /\ body_returns.first = <<>>
    /\ ret.op = "body" /\ ret.kind = "return" /\ ret.bytes = <<>>

\* C7: a call of stream() that is the second one on the Request, or follows a
\* body() that read the body, raises the usage error at the call.
C7_StreamMisuseRaisesAtCall ==
    (/\ ret.op = "stream"
     /\ \/ \E u \in Tasks \ {ret.task} : task[u].gen # "none"
        \/ ~_body.none)
    => ret.kind = "RuntimeError"

\* What holds of every state: one reader at most, and only whole bodies.
C8_Inv ==
    /\ Cardinality(readers) <= 1
    /\ (ret.op = "body" /\ ret.kind = "return") => ret.bytes = request_body
    /\ ~_body.none => _body.v = request_body

\* C8: when a task calls body() (directly or through json(), form() or
\* files()) or starts to iterate a stream while another task is reading the
\* body, it fails with RuntimeError and reads nothing; the chunks all go to
\* one task and no task is given a partial body.
C8_ConcurrentConsumers ==
    [][/\ C8_Inv'
       /\ \A t \in Tasks, op \in BodyOps :
             (Busy(t) /\ NeedsBody(op) /\ Call(t, op))
             => ret' = Failed(t, op) /\ receive' = receive
       /\ \A t \in Tasks :
             (Busy(t) /\ task[t].gen = "created" /\ anext(t))
             => ret' = Failed(t, "anext") /\ receive' = receive]_vars

\* A task was refused while another one has read a part of the body.
C8_Witness ==
    /\ ret.kind = "RuntimeError"
    /\ \E u \in Tasks \ {ret.task} :
          task[u].pc = "recv" /\ Len(task[u].chunks) >= 1

\* Method op has completed on the Request: it is the call that returned last,
\* or its memo is set.
Completed(op) ==
    \/ ret.op = op /\ ret.kind = "return"
    \/ CASE op = "json" -> ~_json.none
         [] op = "form" -> ~_form.none
         [] OTHER -> ~_files.none

\* The consumed-via-body state: the whole body was read and is cached, and a
\* stream() would raise the usage error when it is iterated.
ConsumedViaBody ==
    /\ ~_body.none /\ _body.v = request_body
    /\ receive = <<>>
    /\ stream_entry(_is_stream_consumed).exc = "RuntimeError"

\* The method and the content type for which op parses the body.
ParsesBody(op) ==
    CASE op = "json" -> content_type = "application/json"
      [] op = "form" ->
            /\ req_method \in {"POST", "PUT", "PATCH"}
            /\ content_type \in {"application/x-www-form-urlencoded",
                                "multipart/form-data"}
      [] OTHER ->
            /\ req_method \in {"POST", "PUT", "PATCH"}
            /\ content_type = "multipart/form-data"

\* C9 as stated: after json(), form() or files() has completed, whatever the
\* method and the content type, the Request is in the consumed-via-body state.
C9_AnyParserConsumesBody ==
    \A op \in ParseOps : Completed(op) => ConsumedViaBody

\* C9 as amended: after json() has completed on a request of content type
\* application/json, form() on a POST, PUT or PATCH request of a urlencoded
\* or multipart content type, or files() on a POST, PUT or PATCH multipart
\* request, the Request is in the consumed-via-body state.
C9_ParserConsumesBody ==
    \A op \in ParseOps : (Completed(op) /\ ParsesBody(op)) => ConsumedViaBody

\* json() returned the number parsed from the body of a JSON request.
C9_Witness ==
    /\ ret.op = "json" /\ ret.kind = "return" /\ ret.val = Number(1)
    /\ content_type = "application/json"
    /\ ~_body.none

\* C25: json() returns the empty mapping and raises no exception whenever
\* the request's Content-Type is not application/json or the body is not
\* valid JSON (read here for the calls that body() does not refuse with its
\* usage error).
C25_JsonLenient ==
    (/\ ret.op = "json" /\ ret.kind # "RuntimeError"
     /\ \/ content_type # "application/json"
        \/ ~json_loads(request_body).ok)
    => ret.kind = "return" /\ ret.val = EmptyDict

\* The body fields of the messages, one after the other in their order
RECURSIVE InOrder(_)
InOrder(cs) == IF cs = <<>> THEN <<>> ELSE Head(cs).body \o InOrder(Tail(cs))

\* The chunks body() holds and the messages still to come make up the body
\* in arrival order; a body() that returned has returned the whole of it, up
\* to and with the final chunk, and nothing is read after that chunk.
C37_Safe ==
    /\ \A t \in Tasks :
          task[t].pc = "recv"
          => /\ receive # <<>>
             /\ join(task[t].chunks) \o InOrder(receive) = request_body
    /\ (ret.op = "body" /\ ret.kind = "return")
          => /\ ret.bytes = request_body
             /\ receive = <<>>
             /\ \A t \in Tasks : task[t].pc # "recv"

\* C37: body() returns the body fields of the chunks, in arrival order, up to
\* and with the first chunk whose more_body is false, and reads no chunk
\* after it; with a transport that delivers such a chunk, a body() that
\* waits for the transport comes to its end.
C37_BodyWholeAndTerminates ==
    /\ []C37_Safe
    /\ \A t \in Tasks : (task[t].pc = "recv") ~> (task[t].pc = "idle")

\* body() returned a body that came in two chunks, the first before the
\* second.
C37_Witness ==
    /\ ret.op = "body" /\ ret.kind = "return"
    /\ ret.bytes = <<"1", "{">>
    /\ receive = <<>>

\* C32: after the first completed json(), form() or files(), no parser runs
\* again for that method and no task waits for the transport on its behalf,
\* and a repeated call returns the value of the first; parse_form_data runs
\* at most once for form() and files() called one after the other.
C32_Memoized ==
    /\ calls.again = {}
    /\ \A t \in Tasks :
          task[t].pc = "recv" => task[t].op \notin DOMAIN calls.first
    /\ (ret.kind = "return" /\ ret.op \in DOMAIN calls.first)
          => ret.val = calls.first[ret.op]
    /\ ~calls.overlap => calls.mp <= 1

\* ====================================================== Application claims
Done == pc = "done" /\ scope.type = "http"

Ran(stage) == stage \in Range(log)

\* C15: the database session is opened before the route dispatch runs, is
\* not released while it runs, and is released exactly once when the request
\* ends, whether the view returned, raised or was never reached; a request
\* answered by a stage outside the session stage opens no session.
C15_SessionScoped ==
    /\ session.released <= session.opened /\ session.opened <= 1
    /\ \A i \in DOMAIN log :
          log[i] \in {"dispatch", "handler"}
          => /\ \E j \in 1..(i - 1) : log[j] = "db"
             /\ session.opened = 1
    /\ ("dispatch" \in Range(frames) \/ pc = "handler")
          => session = [opened |-> 1, released |-> 0]
    /\ Done => session.released = session.opened
    /\ (Done /\ Ran("dispatch")) => session = [opened |-> 1, released |-> 1]
    /\ (Done /\ ~Ran("dispatch")) => session = NoSession

\* The view function raised, and the session of the request was released.
C15_Witness ==
    /\ Done
    /\ returned = "raise" /\ exc = "HandlerError"
    /\ session = [opened |-> 1, released |-> 1]

\* C16: the stages of an http request are entered in the order CSRF, static
\* files, database session, route dispatch, the view inside the dispatch;
\* a stage that answers the request itself keeps every stage inside it from
\* running.
C16_ChainOrder ==
    LET order == <<"csrf", "static", "db", "dispatch", "handler">>
    IN scope.type = "http" =>
        /\ Len(log) <= Len(order)
        /\ \A i \in DOMAIN log : log[i] = order[i]
        /\ Done =>
              log = SubSeq(order, 1,
                           IF csrf_rejects(scope) THEN 1
                           ELSE IF is_static(scope.path) THEN 2
                           ELSE IF FirstMatch(scope.path) = 0 THEN 4
                           ELSE IF scope.method
                                     \in Range(routes[FirstMatch(scope.path)].methods)
                           THEN 5 ELSE 4)

\* A request went through every stage to the view function.
C16_Witness ==
    /\ Done
    /\ log = <<"csrf", "static", "db", "dispatch", "handler">>
    /\ Len(sent) = 2

\* C17: for a request with an unsafe method whose submitted token is not the
\* token of its cookie, neither the route dispatch nor a view function runs.
C17_CsrfRejectsBeforeHandler ==
    (/\ scope.type = "http"
     /\ scope.method \in UnsafeMethods
     /\ scope.token # scope.cookie)
    => /\ ~Ran("dispatch") /\ ~Ran("handler")
       /\ pc \notin {"dispatch", "handler"}
       /\ returned = ""

\* A POST to a registered route with the wrong token was answered 403 by the
\* CSRF stage.
C17_Witness ==
    /\ Done
    /\ scope.method = "POST" /\ scope.path = <<"/", "7">>
    /\ scope.cookie = "k" /\ scope.token = "z"
    /\ log = <<"csrf">>
    /\ Len(sent) = 2 /\ sent[1].status = 403

\* The text {"error": ""}
EmptyErrorJson ==
    <<"{", "\"", "e", "r", "r", "o", "r", "\"", ":", " ", "\"", "\"", "}">>

\* C18: a request that reaches the dispatch and whose path no route matches
\* is answered 404, one whose first matching route does not allow the method
\* 405, both with a JSON error body; no view function runs and no exception
\* leaves the dispatch.
C18_RoutingFailureAnswered ==
    (/\ Done /\ Ran("dispatch")
     /\ \/ FirstMatch(scope.path) = 0
        \/ scope.method \notin Range(routes[FirstMatch(scope.path)].methods))
    => /\ exc = ""
       /\ Len(sent) = 2
       /\ sent[1].type = "http.response.start"
       /\ sent[1].status = IF FirstMatch(scope.path) = 0 THEN 404 ELSE 405
       /\ [k |-> "content-type", v |-> "application/json"] \in Range(sent[1].headers)
       /\ sent[2].body = EmptyErrorJson
       /\ ~Ran("handler") /\ returned = ""

\* A GET of the POST-only route was answered 405.
C18_Witness ==
    /\ Done
    /\ scope.path = <<"/", "7">> /\ scope.method = "GET"
    /\ Len(sent) = 2 /\ sent[1].status = 405
    /\ exc = ""

\* C19: when the view function returns a value that is neither a str nor a
\* Response, the request is still answered, with status 500, and no exception
\* leaves the application.
C19_BadReturnAnswered500 ==
    (Done /\ returned = "other")
    => /\ exc = ""
       /\ Len(sent) = 2
       /\ sent[1].status = 500

\* C20: a Response is sent as two events, a start with the status and a
\* header list that holds content-length, then a body with the encoded body;
\* nothing comes before the start or after the body.
C20_TwoEventsInOrder ==
    /\ Len(sent) <= 2
    /\ pc = "send" => sent = <<>>
    /\ pc = "send_body" => Len(sent) = 1
    /\ (pc \in {"return", "done"} /\ response # NoResponse) => Len(sent) = 2
    /\ Len(sent) >= 1
          => /\ sent[1].type = "http.response.start"
             /\ sent[1].status = response.status_code
             /\ \E i \in DOMAIN sent[1].headers :
                   sent[1].headers[i].k = "content-length"
             /\ sent[1].body = <<>>
    /\ Len(sent) = 2
          => /\ sent[2].type = "http.response.body"
             /\ sent[2].body = IF response.body.t = "bytes" THEN response.body.v
                               ELSE encode(response.body.v)

\* The str "e_acute" a view returned was sent: a start with content-length 2,
\* then the two bytes.
C20_Witness ==
    /\ Done
    /\ returned = "str"
    /\ Len(sent) = 2
    /\ [k |-> "content-length", v |-> "2"] \in Range(sent[1].headers)
    /\ sent[2].body = <<"xC3", "xA9">>

\* ========================================================= Response claims
\* A header key in lower case
LowerKey(k) ==
    CASE k = "Content-Type" -> "content-type"
      [] k = "Set-Cookie" -> "set-cookie"
      [] OTHER -> k

\* The entries of a header list under a key, compared without case, in order
Entries(headers, key) ==
    SelectSeq(headers, LAMBDA h : LowerKey(h.k) = key)

\* The header value one set_cookie call builds
CookieValue(c) == set_cookie(<<>>, c)[1].v

\* A Response object was constructed and serialized.
Serialized == ctor # NoCtor /\ Len(sent) = 2

\* C21: after n calls of set_cookie or delete_cookie on a Response, the start
\* event of its serialization carries n Set-Cookie entries, one per call in
\* the order of the calls, each holding the cookie of its call.
C21_CookiesAccumulate ==
    Serialized =>
        LET entries == Entries(sent[1].headers, "set-cookie")
        IN /\ Len(entries) = Len(cookies)
           /\ \A i \in DOMAIN cookies : entries[i].v = CookieValue(cookies[i])

\* The headers argument brings a content type, under a key of any case.
BringsContentType(c) ==
    ~c.headers.none /\ Entries(c.headers.v, "content-type") # <<>>

\* The content type a constructor call asks for
WantedContentType(c) ==
    IF c.ctype.none THEN default_content_type(c.cls) ELSE c.ctype.v

\* C22: a Response has exactly one content-type header, the keys compared
\* without case, after its construction and in the header list of its start
\* event; when the headers argument brings none, its value is the
\* content_type argument if one is given and the default of the class if not.
C22_OneContentType ==
    ctor # NoCtor =>
        /\ Len(Entries(response.headers, "content-type")) = 1
        /\ ~BringsContentType(ctor)
              => Entries(response.headers, "content-type")[1].v
                    = WantedContentType(ctor)
        /\ Len(sent) >= 1
              => /\ Len(Entries(sent[1].headers, "content-type")) = 1
                 /\ ~BringsContentType(ctor)
                       => Entries(sent[1].headers, "content-type")[1].v
                             = WantedContentType(ctor)

\* The status a start event carries, written as text
StatusText(event) == Join(NatToStr(event.status))

\* "<code> <ReasonPhrase>"
status_line(code) == Join(NatToStr(code)) \o " " \o HTTP_STATUS_CODES(code)

\* C23: the start event of a serialized Response carries the status rendered
\* as "<code> <ReasonPhrase>" from the lookup table: "201 Created" for 201,
\* "499 Unknown Status" for 499.
C23_StatusLine ==
    Serialized => StatusText(sent[1]) = status_line(ctor.status_code)

\* The lower case of an ASCII letter, any other character as it is
AsciiLower(c) ==
    IF \E k \in DOMAIN UpperCase : UpperCase[k] = c
    THEN LowerCase[CHOOSE k \in DOMAIN UpperCase : UpperCase[k] = c]
    ELSE c

\* The positions of text where the tag starts, in small or capital letters
TagStarts(text, tag) ==
    {i \in 1..(Len(text) - Len(tag) + 1) :
        \A q \in DOMAIN tag : AsciiLower(text[i + q - 1]) = tag[q]}

\* The text of a body
BodyText(content) ==
    IF content.t = "str" THEN content.v ELSE decode(content.v)

\* C24: with the script loaded, the body event of an HTMLResponse whose body
\* holds </html> and </head> carries the body with the script tag put in
\* directly before its closing </head> and nothing else changed; the body
\* event of one whose body holds no </html> carries the body as it is.
C24_ScriptInjection ==
    (Serialized /\ ctor.cls = "HTMLResponse" /\ script_content # <<>>) =>
        LET text == BodyText(ctor.content)
            heads == TagStarts(text, HeadClose)
            script_tag ==
                <<"<", "s", "c", "r", "i", "p", "t", ">">> \o script_content
                    \o <<"<", "/", "s", "c", "r", "i", "p", "t", ">">>
        IN IF TagStarts(text, HtmlClose) = {}
           THEN sent[2].body = encode(text)
           ELSE heads # {} =>
                  sent[2].body =
                      encode(SubSeq(text, 1, SetMax(heads) - 1) \o script_tag
                                 \o SubSeq(text, SetMax(heads), Len(text)))

\* <script>...</script> around the script, as bytes
ScriptTagBytes ==
    encode(<<"<", "s", "c", "r", "i", "p", "t", ">">> \o script_content
               \o <<"<", "/", "s", "c", "r", "i", "p", "t", ">">>)

\* The response object was made from a full page with a head.
FullPageWithHead ==
    /\ ctor.cls = "HTMLResponse"
    /\ TagStarts(BodyText(ctor.content), HtmlClose) # {}
    /\ TagStarts(BodyText(ctor.content), HeadClose) # {}

\* C31: with the script loaded, every body event sent for an HTMLResponse made
\* from a full page with a head holds the script tag exactly once, however
\* many times the response object is serialized.
C31_InjectionOneTime ==
    (ctor # NoCtor /\ FullPageWithHead /\ script_content # <<>>) =>
        \A k \in 1..(Len(sent) \div 2) :
            Cardinality(Finds(sent[2 * k].body, ScriptTagBytes)) = 1

\* The constructor call brought no content-length header.
BringsNoLength(c) ==
    c.headers.none \/ Entries(c.headers.v, "content-length") = <<>>

\* C36: a Response constructed without a content-length header is sent with
\* one content-length header, the number of bytes of the body event: of the
\* UTF-8 encoding of a text body, and of an HTMLResponse body with the
\* script in it.
C36_ContentLength ==
    (Serialized /\ BringsNoLength(ctor)) =>
        Entries(sent[1].headers, "content-length")
            = <<[k |-> "content-length",
                 v |-> Join(NatToStr(Len(sent[2].body)))]>>

\* The page with U+0130 in its head was sent with the script in it: the body
\* event holds more bytes than the text has characters, and content-length
\* is their number.
C36_Witness ==
    /\ Serialized
    /\ ctor.content = Str(HeadOpen \o <<"I_dot">> \o HeadClose \o HtmlClose)
    /\ script_content # <<>>
    /\ Len(sent[2].body) = Len(ctor.content.v) + 1 + Len(ScriptTagBytes)
    /\ [k |-> "content-length", v |-> "40"] \in Range(sent[1].headers)

\* ------------------------------------------- Application claims, continued
\* C29: a str the view function returns is wrapped in an HTMLResponse of
\* status 200 and content type text/html whose body is that str, and the
\* response is sent (the text as it is, but for the script put into a full
\* page); no exception is raised for it.
C29_StrReturnWrapped ==
    returned = "str" =>
        /\ exc = ""
        /\ response.cls = "HTMLResponse"
        /\ response.status_code = 200
        /\ Entries(response.headers, "content-type")
              = <<[k |-> "content-type", v |-> "text/html"]>>
        /\ pc = "send" => response.body = Str(result.text)
        /\ Done =>
              /\ Len(sent) = 2
              /\ sent[1].status = 200
              /\ Entries(sent[1].headers, "content-type")
                    = <<[k |-> "content-type", v |-> "text/html"]>>
              /\ (script_content = <<>> \/ TagStarts(result.text, HtmlClose) = {})
                    => sent[2].body = encode(result.text)

\* The view of "/a" returned the str "a", and it was sent as text/html.
C29_Witness ==
    /\ Done
    /\ returned = "str" /\ result.text = <<"a">>
    /\ scope.path = <<"/", "a">>
    /\ sent[1].status = 200
    /\ sent[2].body = <<"a">>

\* The start event carries a Set-Cookie that sets csrf_token to the token.
SeedsToken(event, token) ==
    \E i \in DOMAIN event.headers :
        /\ LowerKey(event.headers[i].k) = "set-cookie"
        /\ event.headers[i].v = CookieValue(Cookie("csrf_token", token))

\* The start event carries a Set-Cookie.
SetsCookie(event) == Entries(event.headers, "set-cookie") # <<>>

\* C33: for an http request, request.csrf_token is the csrf_token cookie of
\* the request when it carries one and a fresh token otherwise; the response
\* the route dispatch sends carries a Set-Cookie of csrf_token with that
\* token when the token is fresh and no Set-Cookie when it is not, whether
\* the route was found or not.
C33_TokenSeeded ==
    (scope.type = "http" /\ pc # "idle") =>
        /\ req.new_csrf_token_generated = (scope.cookie = "")
        /\ req.csrf_token = IF scope.cookie = "" THEN FreshToken
                            ELSE scope.cookie
        /\ (Ran("dispatch") /\ Len(sent) >= 1) =>
              IF req.new_csrf_token_generated
              THEN SeedsToken(sent[1], req.csrf_token)
              ELSE ~SetsCookie(sent[1])

\* The number of view function calls made for the request
HandlerCalls == Cardinality({i \in DOMAIN log : log[i] = "handler"})

\* C35: a run of the route dispatch that returned without an exception has
\* sent one response, a start event and then a body event and nothing else;
\* a run calls a view function at most once, and only when resolve found a
\* route for the path and the method.
C35_OneResponsePerDispatch ==
    /\ HandlerCalls <= 1
    /\ HandlerCalls = 1 =>
          /\ Ran("dispatch")
          /\ resolve(scope.path, scope.method).kind = "ok"
    /\ (Ran("dispatch") /\ exc = "" /\ pc \in {"return", "done"}) =>
          /\ Len(sent) = 2
          /\ sent[1].type = "http.response.start"
          /\ sent[2].type = "http.response.body"

\* The dispatch answered 404 without calling a view function and returned.
C35_Witness ==
    /\ Done /\ Ran("dispatch") /\ exc = ""
    /\ HandlerCalls = 0
    /\ Len(sent) = 2 /\ sent[1].status = 404

\* full is the prefix and the path with exactly one slash between them: the
\* prefix without the slashes that end it, one slash, the path without the
\* slashes that start it. A blueprint without a prefix keeps the path.
JoinedWithOneSlash(prefix, path, full) ==
    IF prefix = <<>> THEN full = path
    ELSE \E p \in 0..Len(prefix), q \in 0..Len(path) :
            /\ \A k \in (p + 1)..Len(prefix) : prefix[k] = Lit("/")
            /\ p = 0 \/ prefix[p] # Lit("/")
            /\ \A k \in 1..q : path[k] = Lit("/")
            /\ q = Len(path) \/ path[q + 1] # Lit("/")
            /\ full = SubSeq(prefix, 1, p) \o <<Lit("/")>>
                          \o SubSeq(path, q + 1, Len(path))

\* Route i of the blueprint is the first of the blueprint with its local
\* endpoint name (a later one is refused as a duplicate).
FirstOfItsName(b, i) ==
    \A j \in 1..(i - 1) : b.routes[j].endpoint # b.routes[i].endpoint

\* The place in Router.routes of the route registered under the name e
PlaceOf(e) == CHOOSE k \in DOMAIN routes : routes[k].endpoint = e

\* What C30 states of route i of blueprint b, registered under the name e
BlueprintRouteServed(b, i, e) ==
    LET r == b.routes[i]
        route == endpoints[e]
        u == url_for(Router, e, <<>>)
    IN /\ JoinedWithOneSlash(b.url_prefix, r.path, route.path)
       /\ route.handler = r.handler
       /\ Placeholders(r.path) = {} =>
             /\ u = UrlOut("ok", ToText(route.path))
             /\ \A m \in Range(route.methods) :
                   (\A k \in 1..(PlaceOf(e) - 1) : ~Matches(k, u.path))
                   => /\ resolve(u.path, m).kind = "ok"
                      /\ resolve(u.path, m).handler = r.handler

\* C30: a register_blueprint that returned has registered every route of the
\* blueprint; a registered blueprint route is registered under the name
\* "<blueprint name>.<local endpoint>" with the blueprint's handler and the
\* url_prefix joined to its path with exactly one slash between them;
\* url_for of that name returns the prefixed path, and resolve of that path
\* with a method of the route returns the blueprint's handler when no route
\* registered earlier matches the path.
C30_BlueprintRoutes ==
    \A b \in PrefixedBlueprints :
        /\ (regcall.op = "register_blueprint" /\ regcall.endpoint = Some(b.name)
               /\ reg = "ok")
           => \A i \in DOMAIN b.routes :
                 (b.name \o "." \o b.routes[i].endpoint) \in DOMAIN endpoints
        /\ \A i \in DOMAIN b.routes :
              LET e == b.name \o "." \o b.routes[i].endpoint
              IN (e \in DOMAIN endpoints /\ FirstOfItsName(b, i))
                     => BlueprintRouteServed(b, i, e)

\* ------------------------------------------------ the Request specification
InitRequest ==
    /\ RouterInit
    /\ \E k \in RequestKinds, cs \in ChunkLists : RequestInit(k[1], k[2], cs)
    /\ AppIdle(<<>>)

NextRequest ==
    \E t \in Tasks :
        \/ body(t)
        \/ json(t)
        \/ form(t)
        \/ files(t)
        \/ stream(t)
        \/ anext(t)
        \/ receive_chunk(t)
        \/ parse_multipart_done(t)

SpecRequest == InitRequest /\ [][NextRequest]_vars

\* The body read by body() and by streams, the transport delivering every
\* message a task waits for.
NextBody ==
    \E t \in Tasks :
        \/ body(t)
        \/ stream(t)
        \/ anext(t)
        \/ receive_chunk(t)

SpecBody ==
    /\ InitRequest
    /\ [][NextBody]_vars
    /\ \A t \in Tasks : WF_vars(receive_chunk(t))

\* -------------------------------------------- the Application specification
\* The router of the application when it starts to serve: "/a" for GET with
\* the view h1, and "/<int:id>" for POST with the view h2.
AppRouter ==
    LET first == add_route([routes |-> <<>>, endpoints |-> EmptyMap], PatA,
                           "h1", NoneArg(<<>>), NoneArg(""))
    IN add_route([routes |-> first.routes, endpoints |-> first.endpoints],
                 PatInt, "h2", Some(<<"POST">>), Some("e"))

InitApp ==
    /\ routes = AppRouter.routes
    /\ endpoints = AppRouter.endpoints
    /\ reg = ""
    /\ rcall = NoCall
    /\ regcall = NoRegCall
    /\ ucall = NoUrlCall
    /\ blueprints_with_static_files = {}
    /\ RequestInit("GET", "text/plain", <<Chunk(<<>>, FALSE)>>)
    /\ \E script \in {<<>>, <<"j">>} : AppIdle(script)

NextApp ==
    \/ AppCall
    \/ CSRFMiddleware
    \/ StaticFilesMiddleware
    \/ DBSessionMiddleware
    \/ Dispatch
    \/ InvokeHandler
    \/ SendStart
    \/ SendBody
    \/ DBSessionRelease
    \/ Return

SpecApp == InitApp /\ [][NextApp]_vars

\* ----------------------------------------------- the Response specification
InitResponse ==
    /\ RouterInit
    /\ RequestInit("GET", "text/plain", <<Chunk(<<>>, FALSE)>>)
    /\ \E script \in {<<>>, <<"j">>} : AppIdle(script)

NextResponse ==
    Construct \/ SetCookie \/ DeleteCookie \/ Serialize \/ SerializeAgain

SpecResponse == InitResponse /\ [][NextResponse]_vars

====
